---- MODULE Spec2Model ----
(***************************************************************************)
(* A model of the browser-driven estimate session of the GCP pricing       *)
(* calculator.  Two session implementations exist in the repository:       *)
(*   - "automation": runGcpCalculatorAutomation (lib/gcpCalculatorAutomation),*)
(*      reached through the POST endpoint that validates and converts the   *)
(*      VmConfigs (entry "adapterPOST"), or called directly (entry         *)
(*      "direct");                                                          *)
(*   - "legacy": the POST endpoint of app/api/generate-gcp-url/route.ts,    *)
(*      which drives the browser itself (entry "legacyPOST").               *)
(* The driven page is the environment: every interaction with it has a      *)
(* nondeterministic outcome.                                                *)
(***************************************************************************)
EXTENDS Integers, Sequences, FiniteSets, TLC

VARIABLES
    entry,         \* which entry point handles the request
    req,           \* the HTTP request body: configurations and options
    est,           \* the EstimateRequest handed to runGcpCalculatorAutomation
    pc,            \* position of the handler
    launches,      \* number of chromium.launch calls made
    acquired,      \* handles that are non-null: browser, context, page, consoleStream
    released,      \* per handle: number of release operations applied to it
    releaseOrder,  \* the handles in the order they were released
    closeFailed,   \* handles whose close call raised
    fin,           \* index of the next statement of the finally block
    cur,           \* index of the instance being configured (1-based)
    stg,           \* index of the next stage of the current instance
    seriesOk,      \* legacy: result of the series selection
    lastFail,      \* the last stage that failed: [inst, stage, kind], or Absent
    commitTried,   \* instances for which the Commit stage was attempted
    committed,     \* instances committed to the estimate, in commit order
    lineItems,     \* lineItemSummaries
    totalText,     \* the total read from the page
    shareUrl,      \* the share URL read from the share surface
    shots,         \* screenshots taken
    pending,       \* completion of the try/catch block, kept while finally runs
    ret,           \* what the session function returned (or Raised)
    resp,          \* HTTP response of the adapter POST endpoint
    failPc,        \* position of the statement that raised into the catch block
    phases,        \* the phases of the session completed so far, in order
    stageLog,      \* the stages attempted for the current instance, in order
    csvSeen,       \* what the CSV step found: "skipped" when it did not run
    diag,          \* diagnostics side effects: directory, log, HAR, listener
    \* ---- one call of a Selector function on one dropdown control
    selFn,         \* the function called
    want,          \* the desired option: a label or a machine-type code
    hasControls,   \* the combobox carries an aria-controls attribute
    window,        \* the options the list renders now (indices)
    selected,      \* the option the control has selected (0: none)
    initSel,       \* the selection when the call started
    spc,           \* position in the Selector function
    si,            \* loop counter of the running loop
    scrolls,       \* scroll probes performed by the call
    navSteps,      \* keyboard-navigation steps performed by the call
    picks,         \* options clicked or confirmed by the call
    highlighted,   \* the option keyboard navigation highlights (0: none)
    sret,          \* what the call returned: [kind, ...], or NoRec
    \* ---- the components outside the session, each followed on its own
    comp,          \* the component that is followed
    \* ---- the VM store (useVmStore)
    configurations, \* the configurations, in table order
    selectedIds,   \* the ids of the selected rows
    idCount,       \* ids handed out by generateId so far
    \* ---- the "Number of instances" field of the form
    fImpl,         \* the implementation that sets the field
    target,        \* the requested number of instances
    field,         \* what the field shows
    fpc,           \* position in the stage
    curVal,        \* currentValue: the last value read from the field
    tried,         \* the strategies attempted, in order
    verified,      \* a read after a write returned the target
    presses,       \* presses of the stepper button
    stepFrom,      \* currentValue when the stepper strategy started
    reread,        \* the final read of the field was made
    fres,          \* how the stage ended
    summary,       \* what the line item of the result says about the count
    \* ---- the reading of the share URL
    shImpl,        \* the implementation that reads
    shObs,         \* what the locators of the share surface yield
    shClip,        \* the text on the host clipboard
    shLog,         \* the sources read, in order, with the value each gave
    shUrl,         \* the share URL that was read (NoStr: none)
    shpc,          \* position of the reading
    \* ---- generateIndividualUrls
    gImpl,         \* which copy of the function runs ("none": not followed)
    gConfigs,      \* the ids of the configurations passed in
    gReq,          \* per configuration: "unsent", "inflight" or "settled"
    gGot,          \* per configuration: how its request ended (NoReply: not yet)
    gResults,      \* the results array
    gpc,           \* position of the call
    \* ---- two sessions that collect artifacts, running concurrently
    cCollect,      \* per session: estimateRequest.collectArtifacts
    cpc,           \* per session: position
    cBrowser,      \* per session: the browser it launched (0: none)
    cPages,        \* per browser: the instances added on its page
    cFiles,        \* the artifact directory: path -> who wrote its content
    cAttached,     \* sessions whose log stream writes to the file at the path
    cOut           \* per session: what it returned and what its files held

sessVars == <<entry, req, est, pc, launches, acquired, released, releaseOrder,
              closeFailed, fin, cur, stg, seriesOk, lastFail, commitTried,
              committed, lineItems, totalText, shareUrl, shots, pending, ret,
              resp, failPc, phases, stageLog, csvSeen, diag>>
selVars == <<selFn, want, hasControls, window, selected, initSel, spc, si,
             scrolls, navSteps, picks, highlighted, sret>>
storeVars == <<configurations, selectedIds, idCount>>
fieldVars == <<fImpl, target, field, fpc, curVal, tried, verified, presses,
               stepFrom, reread, fres, summary>>
shareVars == <<shImpl, shObs, shClip, shLog, shUrl, shpc>>
urlVars == <<gImpl, gConfigs, gReq, gGot, gResults, gpc>>
concVars == <<cCollect, cpc, cBrowser, cPages, cFiles, cAttached, cOut>>
libVars == <<comp, storeVars, fieldVars, shareVars, urlVars, concVars>>
vars == <<sessVars, selVars, libVars>>

inputVars == <<entry, req>>
resVars == <<launches, acquired, released, releaseOrder, closeFailed>>
instVars == <<cur, stg, seriesOk, lastFail, commitTried, committed, lineItems,
              stageLog>>
pageVars == <<totalText, shareUrl, shots, csvSeen, diag>>
outVars == <<ret, resp>>
histVars == <<failPc, phases>>

\* ------------------------------------------------------------------ bounds
\* largest number of configurations in one request
MaxInst == 2

\* ------------------------------------------------------- program constants
MaxRunningHours == 744
DefaultHours == 730
DefaultQuantity == 1
NumBackoffs == 3

\* undefined / null, for a scalar field
Absent == "absent"
\* undefined / null, for a string modelled as a token sequence
NoStr == <<"undefined">>
\* null, for a string modelled as a token sequence
NullStr == <<"null">>
\* reading a string from the page threw
ThrowsStr == <<"throws">>
\* undefined / null, for a record
NoRec == [kind |-> "none"]
\* a rejected promise: the exception escaped the function
Raised == [kind |-> "raised"]
\* no stage has failed
NoFail == [kind |-> "none"]

\* ------------------------------------------------------------------ strings
\* Strings that matter as URLs are sequences of tokens.
TargetDomain == "cloud.google.com"
CalcPath == "/products/calculator"
GoodUrl == <<"https://", TargetDomain, CalcPath, "/estimates/abc">>
PaddedUrl == <<" ">> \o GoodUrl \o <<" ">>
ForeignUrl == <<"https://", "evil.example", "/?ref=", TargetDomain>>
PlainText == <<"Link copied">>
Blank == <<" ">>
Empty == <<>>
ShareTexts == {GoodUrl, PaddedUrl, ForeignUrl, PlainText, Blank, Empty}

RECURSIVE TrimLeft(_)
TrimLeft(s) == IF s # <<>> /\ Head(s) = " " THEN TrimLeft(Tail(s)) ELSE s
RECURSIVE TrimRight(_)
TrimRight(s) == IF s # <<>> /\ s[Len(s)] = " "
                THEN TrimRight(SubSeq(s, 1, Len(s) - 1)) ELSE s
\* String.prototype.trim
Trim(s) == TrimRight(TrimLeft(s))
\* String.prototype.includes for one token
Includes(s, tok) == \E k \in 1..Len(s) : s[k] = tok
\* JavaScript truthiness of a string | undefined | null
Truthy(s) == s # NoStr /\ s # Empty

\* --------------------------------------------------------------- requests
\* The fields of a VmConfig that the endpoints read.  OldConfig is a
\* configuration saved before the provisioningModel field existed.
Names == {"e2-standard-2"}
Quantities == {0, 1, 2}
RunningHours == {730, 745}
OldConfig == [name |-> "e2-standard-2", quantity |-> 1, runningHours |-> 730,
              provisioningModel |-> Absent]
VmConfigs == [name : Names, quantity : Quantities,
              runningHours : RunningHours,
              provisioningModel : {"regular"}] \cup {OldConfig}

SeqsUpTo(S, n) == UNION {[1..k -> S] : k \in 0..n}

\* validateVmConfigForAutomation: the list of error messages
ValidateVmConfigForAutomation(config) ==
    (IF config.name = "" THEN <<"Machine type name is required">> ELSE <<>>)
    \o (IF config.quantity < 1
        THEN <<"Quantity must be a positive number">> ELSE <<>>)
    \o (IF config.runningHours < 1 \/ config.runningHours > MaxRunningHours
        THEN <<"Running hours must be between 1 and 744">> ELSE <<>>)

\* validateVmConfigsForAutomation(configs).isValid
ValidateVmConfigsForAutomation(configs) ==
    /\ Len(configs) # 0
    /\ \A k \in 1..Len(configs) :
           ValidateVmConfigForAutomation(configs[k]) = <<>>

\* mapDiscountModelToProvisioningModel throws a TypeError when the field is
\* undefined: the fallback reads config.provisioningModel.toLowerCase()
ProvisioningModelThrows(config) == config.provisioningModel = Absent

\* vmConfigToInstanceInput; x || d is d when x is 0
VmConfigToInstanceInput(config) ==
    [numberOfInstances |-> IF config.quantity = 0 THEN DefaultQuantity
                           ELSE config.quantity,
     totalHours |-> IF config.runningHours = 0 THEN DefaultHours
                    ELSE config.runningHours,
     machineType |-> config.name]

\* vmConfigsToEstimateRequest, with the collectArtifacts the caller adds
VmConfigsToEstimateRequest(configs, wantCsvLink) ==
    [kind |-> "est",
     instances |-> [k \in 1..Len(configs) |-> VmConfigToInstanceInput(configs[k])],
     wantCsvLink |-> wantCsvLink,
     collectArtifacts |-> FALSE]

\* the instance descriptors a caller builds from validated configurations
InstanceInputs ==
    {VmConfigToInstanceInput(c) :
        c \in {v \in VmConfigs : ValidateVmConfigForAutomation(v) = <<>>}}

\* a LineItem echoes the instance
LineItemOf(inst, subtotal) ==
    [machineType |-> inst.machineType, instances |-> inst.numberOfInstances,
     totalHours |-> inst.totalHours, subtotalText |-> subtotal]

\* ------------------------------------------------------------ request sets
\* request.json() of a body that is not JSON rejects
Malformed == [parses |-> FALSE, configurations |-> <<>>, wantCsvLink |-> FALSE]
PostRequests(csvChoices) ==
    {Malformed} \cup
    [parses : {TRUE}, configurations : SeqsUpTo(VmConfigs, MaxInst),
     wantCsvLink : csvChoices]
\* a direct call of runGcpCalculatorAutomation has no HTTP request; an
\* EstimateRequest holds at least one validated instance
NoRequest == [parses |-> TRUE, configurations |-> <<>>, wantCsvLink |-> FALSE]
DirectRequests ==
    [kind : {"est"},
     instances : SeqsUpTo(InstanceInputs, MaxInst) \ {<<>>},
     wantCsvLink : BOOLEAN, collectArtifacts : BOOLEAN]

Impl == IF entry = "legacyPOST" THEN "legacy" ELSE "automation"

\* ---------------------------------------------------------------- results
\* OutputJSON (automation) and the JSON body of a response, in one shape
Artifacts(collect, screenshots) ==
    [present |-> collect, screenshots |-> IF collect THEN screenshots ELSE {}]
NoArtifacts == Artifacts(FALSE, {})

FailOut(msg, arts, status) ==
    [kind |-> "out", success |-> FALSE, shareUrl |-> NoStr,
     csvDownloadUrl |-> NoStr, hasSummary |-> FALSE, lineItems |-> <<>>,
     totalText |-> Absent, error |-> msg, artifacts |-> arts,
     status |-> status]

SuccessOut(url, csv, hasSummary, items, total, arts) ==
    [kind |-> "out", success |-> TRUE, shareUrl |-> url,
     csvDownloadUrl |-> csv, hasSummary |-> hasSummary, lineItems |-> items,
     totalText |-> total, error |-> Absent, artifacts |-> arts,
     status |-> 200]

\* ---------------------------------------------------------------- resources
Resources == {"page", "context", "browser"}
Handles == Resources \cup {"consoleStream"}
\* Playwright: closing a browser closes its contexts, closing a context
\* closes its pages
Owned(h) == CASE h = "browser" -> {"context", "page"}
              [] h = "context" -> {"page"}
              [] OTHER -> {}
CascadeOrder == <<"page", "context", "browser">>

\* the handles a close of h releases besides h: those it owns that are
\* acquired and not released yet
Cascaded(h) == {o \in Owned(h) : o \in acquired /\ released[o] = 0}
ReleasedAfterClose(h) ==
    [x \in Handles |-> IF x = h THEN released[x] + 1
                       ELSE IF x \in Cascaded(h) THEN 1
                       ELSE released[x]]
OrderAfterClose(h) ==
    releaseOrder \o SelectSeq(CascadeOrder, LAMBDA o : o \in Cascaded(h))
                 \o <<h>>

\* a finally block that forgets the browser process
FinallyCloses_NoBrowser(impl) ==
    IF impl = "automation" THEN <<"consoleStream", "context">>
    ELSE <<"page">>

\* a finally block that closes the browser process first
FinallyCloses_BrowserFirst(impl) ==
    IF impl = "automation" THEN <<"browser", "context", "consoleStream">>
    ELSE <<"browser", "page">>

\* the close statements of the finally block, in program order
FinallyCloses(impl) ==
    IF impl = "automation" THEN <<"consoleStream", "context", "browser">>
    ELSE <<"page", "browser">>

\* close statements without their own try/catch
CloseGuarded_Bare(impl) == FALSE

\* each close of the finally block swallows its own failure:
\* try { await x.close() } catch {}  and  x.close().catch(console.error)
CloseGuarded(impl) == TRUE

\* ------------------------------------------------------------------ stages
\* what the page does to one stage: it works, the option or control is not
\* there, or the interaction raises
Outcomes == {"ok", "notfound", "error"}

\* addOneInstance, in program order
AutoStages == <<"SetInstanceCount", "SetUsageHours", "SelectOperatingSystem",
                "SelectProvisioningModel", "SelectSeries",
                "SelectMachineType", "SelectRegion", "SelectCommittedUse",
                "Commit", "Verify">>

\* what addOneInstance does with a stage outcome: "next", "skip" or "abort"
\* (the exception leaves addOneInstance and the instance loop)
AutoHandling(stage, outcome) ==
    IF outcome = "ok" THEN "next"
    ELSE IF stage = "SetUsageHours" /\ outcome = "notfound" THEN "skip"
    ELSE "abort"

AutoError(stage) ==
    CASE stage = "Commit" -> "Failed to click Add to estimate (pane)"
      [] stage \in {"SelectOperatingSystem", "SelectProvisioningModel",
                    "SelectSeries", "SelectMachineType", "SelectRegion",
                    "SelectCommittedUse"} -> "Option not found in dropdown"
      [] OTHER -> "Timeout"

\* the configuration stages of the legacy endpoint, in program order; it has
\* no Commit stage (the step is commented out)
LegacyStages == <<"SelectRegion", "SelectSeries", "SettleWait",
                  "SelectMachineType", "SetInstanceCount", "SetUsageHours",
                  "SetUnits", "SetTimePeriod", "SelectOperatingSystem",
                  "SelectCommittedUse">>

\* stages that call chooseFromCombobox outside any try block
LegacyUnguarded == {"SelectRegion", "SelectSeries", "SelectMachineType",
                    "SelectOperatingSystem"}

LegacyHandling(stage, outcome) ==
    IF outcome = "ok" THEN "next"
    ELSE IF stage \in LegacyUnguarded /\ outcome = "error" THEN "abort"
    ELSE "skip"

\* clickWithRetry: one attempt per backoff, the first success returns
ClickWithRetry(attempts) == \E k \in 1..NumBackoffs : attempts[k]
ClickAttempts == [1..NumBackoffs -> BOOLEAN]

\* ------------------------------------------------------------------- Init
\* no Selector call is being followed
SelectorIdle ==
    /\ selFn = "none" /\ want = NoStr /\ hasControls = TRUE /\ window = {}
    /\ selected = 0 /\ initSel = 0 /\ spc = "idle" /\ si = 0
    /\ scrolls = 0 /\ navSteps = 0 /\ picks = 0 /\ highlighted = 0
    /\ sret = NoRec

\* the VM store as created
StoreIdle == configurations = <<>> /\ selectedIds = {} /\ idCount = 0

\* the field is not followed
FieldIdle ==
    /\ fImpl = "none" /\ target = 0 /\ field = "" /\ fpc = "idle"
    /\ curVal = "" /\ tried = <<>> /\ verified = FALSE /\ presses = 0
    /\ stepFrom = "" /\ reread = FALSE /\ fres = "none"
    /\ summary = [present |-> FALSE, instances |-> 0]

\* the reading of the share URL is not followed
ShareIdle ==
    /\ shImpl = "none" /\ shObs = NoRec /\ shClip = NoStr /\ shLog = <<>>
    /\ shUrl = NoStr /\ shpc = "idle"

\* generateIndividualUrls is not followed
UrlIdle ==
    /\ gImpl = "none" /\ gConfigs = <<>> /\ gReq = <<>> /\ gGot = <<>>
    /\ gResults = <<>> /\ gpc = "idle"

\* the concurrent sessions and the artifact files
Sessions == {1, 2}
ArtifactFiles == {"console.log", "network.har", "estimate.png", "share.png"}
NoOut == [kind |-> "none"]

\* no concurrent sessions are followed
ConcIdle ==
    /\ cCollect = [s \in Sessions |-> FALSE]
    /\ cpc = [s \in Sessions |-> "idle"]
    /\ cBrowser = [s \in Sessions |-> 0]
    /\ cPages = <<>>
    /\ cFiles = [f \in ArtifactFiles |-> {}]
    /\ cAttached = {}
    /\ cOut = [s \in Sessions |-> NoOut]

\* no component outside the session is followed
LibIdle ==
    /\ comp = "none" /\ StoreIdle /\ FieldIdle /\ ShareIdle
    /\ UrlIdle /\ ConcIdle

Init ==
    /\ entry \in {"adapterPOST", "legacyPOST", "direct"}
    /\ \/ entry = "adapterPOST" /\ req \in PostRequests(BOOLEAN)
          /\ est = NoRec /\ pc = "post"
       \/ entry = "legacyPOST" /\ req \in PostRequests({FALSE})
          /\ est = NoRec /\ pc = "l_launch"
       \/ entry = "direct" /\ req = NoRequest
          /\ est \in DirectRequests /\ pc = "a_setup"
    /\ launches = 0
    /\ acquired = {}
    /\ released = [h \in Handles |-> 0]
    /\ releaseOrder = <<>>
    /\ closeFailed = {}
    /\ fin = 0
    /\ cur = 0
    /\ stg = 0
    /\ seriesOk = FALSE
    /\ lastFail = NoFail
    /\ commitTried = {}
    /\ committed = <<>>
    /\ lineItems = <<>>
    /\ totalText = Absent
    /\ shareUrl = NoStr
    /\ shots = {}
    /\ pending = NoRec
    /\ ret = NoRec
    /\ resp = NoRec
    /\ failPc = "none"
    /\ phases = <<>>
    /\ stageLog = <<>>
    /\ csvSeen = "skipped"
    /\ diag = {}
    /\ SelectorIdle
    /\ LibIdle

\* an exception reaches the catch block of the session: the failure result
\* is built and the finally block starts
Throw(msg, screenshots) ==
    /\ pending' = FailOut(msg,
                     IF Impl = "automation"
                     THEN Artifacts(est.collectArtifacts, screenshots)
                     ELSE NoArtifacts,
                     IF Impl = "automation" THEN 0 ELSE 500)
    /\ pc' = "finally"
    /\ fin' = 1
    /\ failPc' = pc
    /\ phases' = Append(phases, "Failed")

\* a statement that did not raise
NoThrow == UNCHANGED <<pending, fin, failPc, phases>>

\* the statements of a phase are done
Completed(phase) ==
    /\ UNCHANGED <<pending, fin, failPc>>
    /\ phases' = Append(phases, phase)

\* ------------------------------------------------- the adapter POST endpoint
\* POST: parse, validate, convert, then call runGcpCalculatorAutomation
AdapterPost ==
    /\ pc = "post"
    /\ IF ~req.parses
       THEN /\ resp' = FailOut("Unexpected token", NoArtifacts, 500)
            /\ pc' = "done" /\ est' = est
       ELSE IF ~ValidateVmConfigsForAutomation(req.configurations)
       THEN /\ resp' = FailOut("Configuration validation failed",
                               NoArtifacts, 400)
            /\ pc' = "done" /\ est' = est
       ELSE IF \E k \in 1..Len(req.configurations) :
                   ProvisioningModelThrows(req.configurations[k])
       THEN /\ resp' = FailOut("Cannot read properties of undefined",
                               NoArtifacts, 500)
            /\ pc' = "done" /\ est' = est
       ELSE /\ est' = VmConfigsToEstimateRequest(req.configurations,
                                                 req.wantCsvLink)
            /\ pc' = "a_setup" /\ resp' = resp
    /\ UNCHANGED <<inputVars, resVars, instVars, pageVars, fin, pending, ret>>
    /\ UNCHANGED <<histVars, selVars, libVars>>

\* POST, after runGcpCalculatorAutomation returned: map the result
AdapterRespond ==
    /\ pc = "a_respond"
    /\ resp' = IF ret = Raised
               THEN FailOut("Unknown error occurred", NoArtifacts, 500)
               ELSE [ret EXCEPT
                       !.status = IF ret.success THEN 200 ELSE 500,
                       !.artifacts = [present |-> TRUE,
                                      screenshots |-> ret.artifacts.screenshots]]
    /\ pc' = "done"
    /\ UNCHANGED <<inputVars, est, resVars, instVars, pageVars, fin, pending,
                   ret>>
    /\ UNCHANGED <<histVars, selVars, libVars>>

\* ------------------------------------------ runGcpCalculatorAutomation
Instances == est.instances
\* artifacts collected whatever the request says
Collect_Always == TRUE

\* const collectArtifacts = estimateRequest.collectArtifacts === true
Collect == est.collectArtifacts

\* artifact directory and console log stream, set up before the try block
A_Setup ==
    /\ pc = "a_setup"
    /\ IF Collect
       THEN \E ok \in BOOLEAN :
              IF ok
              THEN /\ acquired' = acquired \cup {"consoleStream"}
                   /\ diag' = diag \cup {"artifactDir", "consoleLog"}
                   /\ pc' = "a_launch" /\ ret' = ret
              ELSE \* ensureDir throws outside the try block
                   /\ ret' = Raised
                   /\ pc' = "done" /\ UNCHANGED <<acquired, diag>>
       ELSE /\ pc' = "a_launch" /\ UNCHANGED <<acquired, ret, diag>>
    /\ UNCHANGED <<inputVars, est, launches, released, releaseOrder,
                   closeFailed, instVars, totalText, shareUrl, shots, csvSeen,
                   fin, pending, resp>>
    /\ UNCHANGED <<histVars, selVars, libVars>>

\* browser = await chromium.launch(...)
A_Launch ==
    /\ pc = "a_launch"
    /\ launches' = launches + 1
    /\ \E ok \in BOOLEAN :
         IF ok
         THEN /\ acquired' = acquired \cup {"browser"}
              /\ pc' = "a_context" /\ NoThrow
         ELSE /\ Throw("browserType.launch failed", shots)
              /\ acquired' = acquired
    /\ UNCHANGED <<inputVars, est, released, releaseOrder, closeFailed,
                   instVars, pageVars, outVars>>
    /\ UNCHANGED <<selVars, libVars>>

\* context = await browser.newContext(...)
A_NewContext ==
    /\ pc = "a_context"
    /\ \E ok \in BOOLEAN :
         IF ok
         THEN /\ acquired' = acquired \cup {"context"}
              /\ diag' = IF Collect THEN diag \cup {"networkHar"} ELSE diag
              /\ pc' = "a_page" /\ NoThrow
         ELSE /\ Throw("browser.newContext failed", shots)
              /\ UNCHANGED <<acquired, diag>>
    /\ UNCHANGED <<inputVars, est, launches, released, releaseOrder,
                   closeFailed, instVars, totalText, shareUrl, shots, csvSeen,
                   outVars>>
    /\ UNCHANGED <<selVars, libVars>>

\* page = await context.newPage()
A_NewPage ==
    /\ pc = "a_page"
    /\ \E ok \in BOOLEAN :
         IF ok
         THEN /\ acquired' = acquired \cup {"page"}
              /\ diag' = IF Collect /\ "consoleStream" \in acquired
                         THEN diag \cup {"consoleListener"} ELSE diag
              /\ pc' = "a_goto" /\ NoThrow
         ELSE /\ Throw("Failed to create Playwright page", shots)
              /\ UNCHANGED <<acquired, diag>>
    /\ UNCHANGED <<inputVars, est, launches, released, releaseOrder,
                   closeFailed, instVars, totalText, shareUrl, shots, csvSeen,
                   outVars>>
    /\ UNCHANGED <<selVars, libVars>>

\* page.goto, waitForLoadState, dismissOverlays
A_Goto ==
    /\ pc = "a_goto"
    /\ \E ok \in BOOLEAN :
         IF ok THEN pc' = "a_picker" /\ NoThrow
         ELSE Throw("page.goto: Timeout", shots)
    /\ UNCHANGED <<inputVars, est, resVars, instVars, pageVars, outVars>>
    /\ UNCHANGED <<selVars, libVars>>

\* click the top-level "Add to estimate"
A_OpenPicker ==
    /\ pc = "a_picker"
    /\ \E attempts \in ClickAttempts :
         IF ClickWithRetry(attempts)
         THEN pc' = "a_product" /\ Completed("ProductPickerOpen")
         ELSE Throw("Failed to click Add to estimate", shots)
    /\ UNCHANGED <<inputVars, est, resVars, instVars, pageVars, outVars>>
    /\ UNCHANGED <<selVars, libVars>>

\* click the service card, the Instances toggle, Advanced settings off;
\* then the head of the instance loop
A_SelectProduct ==
    /\ pc = "a_product"
    /\ \E attempts \in ClickAttempts :
         IF ClickWithRetry(attempts)
         THEN /\ pc' = IF Len(Instances) = 0 THEN "a_total" ELSE "a_stage"
              /\ cur' = IF Len(Instances) = 0 THEN cur ELSE 1
              /\ stg' = IF Len(Instances) = 0 THEN stg ELSE 1
              /\ stageLog' = <<>>
              /\ Completed("ProductSelected")
         ELSE /\ Throw("Failed to click Service card", shots)
              /\ UNCHANGED <<cur, stg, stageLog>>
    /\ UNCHANGED <<inputVars, est, resVars, seriesOk, lastFail, commitTried,
                   committed, lineItems, pageVars, outVars>>
    /\ UNCHANGED <<selVars, libVars>>

\* addOneInstance: one field or dropdown of the form, before the Commit
A_Stage ==
    /\ pc = "a_stage"
    /\ AutoStages[stg] \notin {"Commit", "Verify"}
    /\ \E outcome \in Outcomes :
         LET stage == AutoStages[stg]
             how == AutoHandling(stage, outcome)
         IN  /\ lastFail' = IF outcome = "ok" THEN lastFail
                            ELSE [kind |-> outcome, inst |-> cur,
                                  stage |-> stage]
             /\ stageLog' = Append(stageLog, stage)
             /\ IF how = "abort"
                THEN Throw(AutoError(stage), shots) /\ stg' = stg
                ELSE stg' = stg + 1 /\ pc' = pc /\ NoThrow
    /\ UNCHANGED <<inputVars, est, resVars, cur, seriesOk, commitTried,
                   committed, lineItems, pageVars, outVars>>
    /\ UNCHANGED <<selVars, libVars>>

\* addOneInstance: click "Add to estimate" of the form (clickWithRetry)
A_Commit ==
    /\ pc = "a_stage"
    /\ AutoStages[stg] = "Commit"
    /\ commitTried' = commitTried \cup {cur}
    /\ stageLog' = Append(stageLog, "Commit")
    /\ \E attempts \in ClickAttempts :
         LET outcome == IF ClickWithRetry(attempts) THEN "ok" ELSE "error"
         IN  IF AutoHandling("Commit", outcome) = "abort"
             THEN /\ Throw(AutoError("Commit"), shots)
                  /\ lastFail' = [kind |-> outcome, inst |-> cur,
                                  stage |-> "Commit"]
                  /\ UNCHANGED <<stg, committed>>
             ELSE /\ stg' = stg + 1
                  /\ committed' = IF outcome = "ok"
                                  THEN Append(committed, cur) ELSE committed
                  /\ lastFail' = IF outcome = "ok" THEN lastFail
                                 ELSE [kind |-> outcome, inst |-> cur,
                                       stage |-> "Commit"]
                  /\ pc' = pc /\ NoThrow
    /\ UNCHANGED <<inputVars, est, resVars, cur, seriesOk, lineItems,
                   pageVars, outVars>>
    /\ UNCHANGED <<selVars, libVars>>

\* an instance loop that does not advance
NextInstance_Stuck(k) == k

\* for (let i = 0; ...; i++) over estimateRequest.instances
NextInstance(k) == k + 1

\* addOneInstance after the click: wait for the line in the estimate panel,
\* screenshot when enabled, read the subtotal, push the line item; then the
\* rest of the loop body and the loop test
Subtotals == {Absent, "$70.08"}
A_Verify ==
    /\ pc = "a_stage"
    /\ AutoStages[stg] = "Verify"
    /\ \E seen \in BOOLEAN, shotOk \in BOOLEAN, subtotal \in Subtotals :
         IF ~seen
         THEN /\ Throw("locator.waitFor: Timeout", shots)
              /\ lastFail' = [kind |-> "error", inst |-> cur,
                              stage |-> "Verify"]
              /\ UNCHANGED <<cur, stg, lineItems, shots, stageLog>>
         ELSE IF Collect /\ ~shotOk
         THEN /\ Throw("page.screenshot failed", shots)
              /\ lastFail' = [kind |-> "error", inst |-> cur,
                              stage |-> "Verify"]
              /\ UNCHANGED <<cur, stg, lineItems, shots, stageLog>>
         ELSE /\ shots' = IF Collect THEN shots \cup {"estimatePanel"}
                          ELSE shots
              /\ lineItems' = Append(lineItems,
                                     LineItemOf(Instances[cur], subtotal))
              /\ lastFail' = lastFail
              /\ IF cur < Len(Instances)
                 THEN /\ cur' = NextInstance(cur) /\ stg' = 1 /\ pc' = pc
                      /\ stageLog' = <<>>
                 ELSE pc' = "a_total" /\ UNCHANGED <<cur, stg, stageLog>>
              /\ Completed("InstanceSequenced")
    /\ UNCHANGED <<inputVars, est, resVars, seriesOk, commitTried, committed,
                   totalText, shareUrl, csvSeen, diag, outVars>>
    /\ UNCHANGED <<selVars, libVars>>

\* ------------------------------------------------------- total and share
\* what one total locator yields: Absent when it matches nothing or its
\* text cannot be read
TotalVals == {Absent, "Total", "Total $70.08 / month"}
AnyMoneyVals == {Absent, "$70.08"}
\* /\$[0-9,]+(\.[0-9]{2})?/.test(t)
HasCurrency(t) == t \in {"Total $70.08 / month", "$70.08"}
TotalObservations == [cands : [1..3 -> TotalVals], anyMoney : AnyMoneyVals]

\* the total: the first candidate locator whose text holds a currency
\* amount, else any visible currency text
ReadTotal(obs) ==
    LET hits == {k \in 1..3 : obs.cands[k] # Absent /\ HasCurrency(obs.cands[k])}
    IN  IF hits # {}
        THEN obs.cands[CHOOSE k \in hits : \A j \in hits : k <= j]
        ELSE obs.anyMoney
TotalReads == {ReadTotal(obs) : obs \in TotalObservations}

\* what one locator of the share surface yields: NoStr when it matches
\* nothing, ThrowsStr when reading its value raises
SourceVals == ShareTexts \cup {NoStr, ThrowsStr}
ShareObservations ==
    [copyLink : BOOLEAN, candidateInput : SourceVals, shareInput : SourceVals,
     clickOk : BOOLEAN, shareInputAfterClick : {NoStr, GoodUrl, PlainText},
     shareTextbox : {NoStr, GoodUrl, ForeignUrl, ThrowsStr},
     anyLink : {NoStr, GoodUrl}]

\* (await input.inputValue()).trim() inside try { } catch {}
InputValue(v) == IF v = ThrowsStr THEN NoStr ELSE Trim(v)

\* the share URL as the automation reads it: the input next to "Copy link",
\* a URL-bearing input, the same after a click, a textbox, a calculator link
ReadShareUrl(obs) ==
    LET byCopyLink ==
            IF ~obs.copyLink THEN NoStr
            ELSE IF obs.candidateInput # NoStr
                 THEN InputValue(obs.candidateInput)
            ELSE IF obs.shareInput # NoStr THEN InputValue(obs.shareInput)
            ELSE IF obs.clickOk /\ obs.shareInputAfterClick # NoStr
                 THEN InputValue(obs.shareInputAfterClick)
            ELSE NoStr
        byTextbox ==
            IF Truthy(byCopyLink) THEN byCopyLink
            ELSE IF obs.shareTextbox \notin {NoStr, ThrowsStr}
                 THEN Trim(obs.shareTextbox)
            ELSE byCopyLink
    IN  IF Truthy(byTextbox) THEN byTextbox
        ELSE IF obs.anyLink # NoStr THEN obs.anyLink
        ELSE byTextbox
ShareReads == {ReadShareUrl(obs) : obs \in ShareObservations}

\* the CSV link: the href of a CSV anchor when it is an http(s) URL
\* what the CSV step can find: no CSV anchor, an anchor without href, an
\* anchor with an href; reading the href can raise
CsvFinds == {"nolink", "nohref", "href", "raised"}
CsvHrefs == {GoodUrl, PlainText}
\* csvUrl: null unless the anchor has an href that starts with http(s)://
ReadCsvUrl(found, href) ==
    IF found = "href" /\ href[1] = "https://" THEN href ELSE NullStr

\* a CSV step that runs whatever the request says
CsvStepRuns_Always(request) == TRUE

\* if (estimateRequest.wantCsvLink)
CsvStepRuns(request) == request.wantCsvLink

\* validate that the total appears and looks like currency
A_Total ==
    /\ pc = "a_total"
    /\ \E t \in TotalReads :
         /\ totalText' = t
         /\ IF t = Absent \/ t = ""
            THEN Throw("Total not found or not formatted as currency", shots)
            ELSE pc' = "a_share" /\ Completed("TotalValidated")
    /\ UNCHANGED <<inputVars, est, resVars, instVars, shareUrl, shots,
                   csvSeen, diag, outVars>>
    /\ UNCHANGED <<selVars, libVars>>

\* click the Share button, screenshot when enabled
A_OpenShare ==
    /\ pc = "a_share"
    /\ \E attempts \in ClickAttempts :
         IF ~ClickWithRetry(attempts)
         THEN Throw("Failed to click Share button", shots)
         ELSE /\ pc' = IF Collect THEN "a_shareshot" ELSE "a_readshare"
              /\ Completed("ShareSurfaceOpen")
    /\ UNCHANGED <<inputVars, est, resVars, instVars, pageVars, outVars>>
    /\ UNCHANGED <<selVars, libVars>>

\* the screenshot of the share menu, taken when artifacts are collected
A_ShareShot ==
    /\ pc = "a_shareshot"
    /\ \E shotOk \in BOOLEAN :
         IF ~shotOk
         THEN Throw("page.screenshot failed", shots) /\ shots' = shots
         ELSE /\ shots' = shots \cup {"shareMenu"}
              /\ pc' = "a_readshare" /\ NoThrow
    /\ UNCHANGED <<inputVars, est, resVars, instVars, totalText, shareUrl,
                   csvSeen, diag, outVars>>
    /\ UNCHANGED <<selVars, libVars>>

\* read the share URL from the share surface
A_ReadShare ==
    /\ pc = "a_readshare"
    /\ \E url \in ShareReads :
         /\ shareUrl' = url
         /\ IF ~Truthy(url)
            THEN Throw("Failed to capture share URL from Share UI", shots)
            ELSE pc' = "a_finish" /\ Completed("ShareUrlExtracted")
    /\ UNCHANGED <<inputVars, est, resVars, instVars, totalText, shots,
                   csvSeen, diag, outVars>>
    /\ UNCHANGED <<selVars, libVars>>

\* the optional CSV link, then the success result
A_Finish ==
    /\ pc = "a_finish"
    /\ \E found \in CsvFinds, href \in CsvHrefs :
         LET runs == CsvStepRuns(est)
         IN  /\ csvSeen' = IF runs THEN found ELSE "skipped"
             /\ IF runs /\ found = "raised"
                THEN Throw("locator.getAttribute: Timeout", shots)
                ELSE /\ pending' = SuccessOut(shareUrl,
                                       IF est.wantCsvLink
                                       THEN (IF runs THEN ReadCsvUrl(found, href)
                                             ELSE NullStr)
                                       ELSE NoStr,
                                       TRUE, lineItems, totalText,
                                       Artifacts(Collect, shots))
                     /\ pc' = "finally"
                     /\ fin' = 1
                     /\ failPc' = failPc
                     /\ phases' = phases \o (IF runs THEN <<"CsvLinkExtracted">>
                                             ELSE <<>>) \o <<"Done">>
    /\ UNCHANGED <<inputVars, est, resVars, instVars, totalText, shareUrl,
                   shots, diag, outVars>>
    /\ UNCHANGED <<selVars, libVars>>

\* --------------------------------------------------------------- teardown
\* one statement of the finally block: close the handle if it is non-null
Finally ==
    /\ pc = "finally"
    /\ fin <= Len(FinallyCloses(Impl))
    /\ LET h == FinallyCloses(Impl)[fin]
       IN  IF h \notin acquired
           THEN /\ fin' = fin + 1
                /\ UNCHANGED <<pc, released, releaseOrder, closeFailed, ret>>
           ELSE \E ok \in BOOLEAN :
                  /\ released' = ReleasedAfterClose(h)
                  /\ releaseOrder' = OrderAfterClose(h)
                  /\ closeFailed' = IF ok THEN closeFailed
                                    ELSE closeFailed \cup {h}
                  /\ IF ok \/ CloseGuarded(Impl)
                     THEN fin' = fin + 1 /\ UNCHANGED <<pc, ret>>
                     ELSE \* the exception of the close replaces the result
                          /\ ret' = Raised
                          /\ fin' = fin
                          /\ pc' = IF entry = "adapterPOST" THEN "a_respond"
                                   ELSE "done"
    /\ UNCHANGED <<inputVars, est, launches, acquired, instVars, pageVars,
                   pending, resp>>
    /\ UNCHANGED <<histVars, selVars, libVars>>

\* the end of the finally block: the pending result is returned
Return ==
    /\ pc = "finally"
    /\ fin > Len(FinallyCloses(Impl))
    /\ ret' = pending
    /\ pc' = IF entry = "adapterPOST" THEN "a_respond" ELSE "done"
    /\ UNCHANGED <<inputVars, est, resVars, instVars, pageVars, fin, pending,
                   resp>>
    /\ UNCHANGED <<histVars, selVars, libVars>>

\* ------------------------------------------------ the legacy POST endpoint
\* parse the body, then browser = await chromium.launch(...)
L_Launch ==
    /\ pc = "l_launch"
    /\ IF ~req.parses
       THEN /\ Throw("Unexpected token", shots)
            /\ UNCHANGED <<launches, acquired>>
       ELSE /\ launches' = launches + 1
            /\ \E ok \in BOOLEAN :
                 IF ok
                 THEN /\ acquired' = acquired \cup {"browser"}
                      /\ pc' = "l_context" /\ NoThrow
                 ELSE /\ Throw("browserType.launch failed", shots)
                      /\ acquired' = acquired
    /\ UNCHANGED <<inputVars, est, released, releaseOrder, closeFailed,
                   instVars, pageVars, outVars>>
    /\ UNCHANGED <<selVars, libVars>>

\* context = await browser.newContext(...)
L_NewContext ==
    /\ pc = "l_context"
    /\ \E ok \in BOOLEAN :
         IF ok
         THEN /\ acquired' = acquired \cup {"context"}
              /\ pc' = "l_page" /\ NoThrow
         ELSE /\ Throw("browser.newContext failed", shots)
              /\ acquired' = acquired
    /\ UNCHANGED <<inputVars, est, launches, released, releaseOrder,
                   closeFailed, instVars, pageVars, outVars>>
    /\ UNCHANGED <<selVars, libVars>>

\* page = await context.newPage()
L_NewPage ==
    /\ pc = "l_page"
    /\ \E ok \in BOOLEAN :
         IF ok
         THEN /\ acquired' = acquired \cup {"page"}
              /\ pc' = "l_goto" /\ NoThrow
         ELSE /\ Throw("Failed to create page", shots)
              /\ acquired' = acquired
    /\ UNCHANGED <<inputVars, est, launches, released, releaseOrder,
                   closeFailed, instVars, pageVars, outVars>>
    /\ UNCHANGED <<selVars, libVars>>

\* page.goto, waitForLoadState
L_Goto ==
    /\ pc = "l_goto"
    /\ \E ok \in BOOLEAN :
         IF ok THEN pc' = "l_picker" /\ NoThrow
         ELSE Throw("page.goto: Timeout", shots)
    /\ UNCHANGED <<inputVars, est, resVars, instVars, pageVars, outVars>>
    /\ UNCHANGED <<selVars, libVars>>

\* click the hero "Add to estimate", wait for the product picker dialog
L_OpenPicker ==
    /\ pc = "l_picker"
    /\ \E ok \in BOOLEAN :
         IF ok THEN pc' = "l_product" /\ Completed("ProductPickerOpen")
         ELSE Throw("locator.click: Timeout", shots)
    /\ UNCHANGED <<inputVars, est, resVars, instVars, pageVars, outVars>>
    /\ UNCHANGED <<selVars, libVars>>

\* click the Compute Engine tile, locate the form; then take the first
\* configuration of the request
L_SelectProduct ==
    /\ pc = "l_product"
    /\ \E ok \in BOOLEAN :
         IF ~ok
         THEN /\ Throw("locator.click: Timeout", shots)
              /\ UNCHANGED <<cur, stg, stageLog>>
         ELSE IF Len(req.configurations) = 0
         THEN /\ Throw("No VM configurations provided", shots)
              /\ UNCHANGED <<cur, stg, stageLog>>
         ELSE /\ cur' = 1 /\ stg' = 1 /\ stageLog' = <<>>
              /\ pc' = "l_stage" /\ Completed("ProductSelected")
    /\ UNCHANGED <<inputVars, est, resVars, seriesOk, lastFail, commitTried,
                   committed, lineItems, pageVars, outVars>>
    /\ UNCHANGED <<selVars, libVars>>

\* one configuration stage of the form; the settle wait runs only after a
\* successful series selection
L_Stage ==
    /\ pc = "l_stage"
    /\ LET stage == LegacyStages[stg]
           after == IF stg < Len(LegacyStages) THEN "l_stage" ELSE "l_share"
       IN  \E outcome \in (IF stage = "SettleWait" THEN {"ok"} ELSE Outcomes) :
             LET how == LegacyHandling(stage, outcome)
             IN  /\ seriesOk' = IF stage = "SelectSeries" THEN outcome = "ok"
                                ELSE seriesOk
                 /\ stageLog' = Append(stageLog, stage)
                 /\ lastFail' = IF outcome = "ok" THEN lastFail
                                ELSE [kind |-> outcome, inst |-> cur,
                                      stage |-> stage]
                 /\ IF how = "abort"
                    THEN Throw("locator.click: Timeout", shots) /\ stg' = stg
                    ELSE /\ stg' = IF stage = "SelectSeries" /\ outcome # "ok"
                                   THEN stg + 2 ELSE stg + 1
                         /\ pc' = after
                         /\ IF after = "l_share"
                            THEN Completed("InstanceSequenced")
                            ELSE NoThrow
    /\ UNCHANGED <<inputVars, est, resVars, cur, commitTried, committed,
                   lineItems, pageVars, outVars>>
    /\ UNCHANGED <<selVars, libVars>>

\* generateShareLink: click the share button, find and click "Copy link"
L_OpenShare ==
    /\ pc = "l_share"
    /\ \E ok \in BOOLEAN :
         IF ok THEN pc' = "l_copy" /\ Completed("ShareSurfaceOpen")
         ELSE Throw("locator.click: Timeout", shots)
    /\ UNCHANGED <<inputVars, est, resVars, instVars, pageVars, outVars>>
    /\ UNCHANGED <<selVars, libVars>>

\* the test generateShareLink applies to the clipboard text
AcceptsClipboard(text) == Truthy(text) /\ Includes(text, TargetDomain)

\* generateShareLink: read the clipboard; then the success response
L_ReadClipboard ==
    /\ pc = "l_copy"
    /\ \E text \in ShareTexts \cup {ThrowsStr} :
         IF text = ThrowsStr
         THEN Throw("clipboard.readText: NotAllowedError", shots)
              /\ shareUrl' = shareUrl
         ELSE IF ~AcceptsClipboard(text)
         THEN Throw("Share URL not found in clipboard", shots)
              /\ shareUrl' = shareUrl
         ELSE /\ shareUrl' = text
              /\ pending' = SuccessOut(text, NoStr, FALSE, <<>>, Absent,
                                       NoArtifacts)
              /\ pc' = "finally"
              /\ fin' = 1
              /\ failPc' = failPc
              /\ phases' = phases \o <<"ShareUrlExtracted", "Done">>
    /\ UNCHANGED <<inputVars, est, resVars, instVars, totalText, shots,
                   csvSeen, diag, outVars>>
    /\ UNCHANGED <<selVars, libVars>>

\* -------------------------------------------------------------------- Next
Next ==
    \/ AdapterPost \/ AdapterRespond
    \/ A_Setup \/ A_Launch \/ A_NewContext \/ A_NewPage \/ A_Goto
    \/ A_OpenPicker \/ A_SelectProduct \/ A_Stage \/ A_Commit \/ A_Verify
    \/ A_Total \/ A_OpenShare \/ A_ShareShot \/ A_ReadShare \/ A_Finish
    \/ L_Launch \/ L_NewContext \/ L_NewPage \/ L_Goto \/ L_OpenPicker
    \/ L_SelectProduct \/ L_Stage \/ L_OpenShare \/ L_ReadClipboard
    \/ Finally \/ Return

Spec == Init /\ [][Next]_vars

\* ============================================================== Selector
\* One call of a Selector function on one dropdown control.  The list of the
\* control is the environment: it renders a window of its options, and the
\* window changes when the list is scrolled or reopened.

\* ------------------------------------------------------- program constants
\* for (let i = 0; i < 40; i++) of chooseFromCombobox
ScrollCapLabel == 40
\* for (let i = 0; i < 60; i++) of chooseMachineType
ScrollCapCode == 60
\* for (let i = 0; i < 100; i++) of the keyboard navigation
KeyNavCap == 100

\* ---------------------------------------------------------------- options
\* Labels are token sequences, so that one label can hold another.
\* String.prototype.toLowerCase, per token
Lower(tok) == IF tok = "N1-Standard-" THEN "n1-standard-" ELSE tok
LowerStr(str) == [k \in DOMAIN str |-> Lower(str[k])]
\* String.prototype.includes
Contains(hay, needle) ==
    \E a \in 0..(Len(hay) - Len(needle)) :
        SubSeq(hay, a + 1, a + Len(needle)) = needle
\* ciContains, and the test of a RegExp(text, 'i')
CiContains(hay, needle) == Contains(LowerStr(hay), LowerStr(needle))

\* the options of the control, in DOM order: the text of the option and its
\* data-value attribute
ControlOptions ==
    << [text |-> <<"n1-standard-", "1">>,
        value |-> <<"n1-standard-", "1">>],
       [text |-> <<"n1-standard-", "1", "6">>,
        value |-> <<"n1-standard-", "1", "6">>],
       [text |-> <<" ", "N1-Standard-", "2", " (2 vCPU)">>,
        value |-> NoStr] >>
OptionIds == 1..Len(ControlOptions)
Windows == SUBSET OptionIds
\* what a caller asks for; the last one is no option of the control
Wants == {<<"n1-standard-", "1">>, <<"n1-standard-", "1", "6">>,
          <<"n1-standard-", "2">>, <<"n1-standard-", "4">>}

\* the option a discriminator stands for (0: none)
OptionOf(w) ==
    IF \E k \in OptionIds : ControlOptions[k].value = w
    THEN CHOOSE k \in OptionIds : ControlOptions[k].value = w
    ELSE IF \E k \in OptionIds : CiContains(ControlOptions[k].text, w)
    THEN CHOOSE k \in OptionIds : CiContains(ControlOptions[k].text, w)
    ELSE 0

\* list.locator(`li[role="option"][data-value="${code}"]`)
ByValue(win, code) == {k \in win : ControlOptions[k].value = code}
\* list.getByRole('option', { name: rx }) for rx = new RegExp(label, 'i')
ByText(win, label) == {k \in win : CiContains(ControlOptions[k].text, label)}
\* txt.toLowerCase() === desiredLabel.toLowerCase() for the trimmed innerText
ExactText(win, label) ==
    {k \in win : LowerStr(Trim(ControlOptions[k].text)) = LowerStr(label)}
\* locator.first(), nth(i) in a loop from 0: DOM order
First(S) == CHOOSE k \in S : \A j \in S : k <= j

\* ----------------------------------------------------------------- results
SelFound(k) == [kind |-> "found", option |-> k, error |-> Absent]
SelNotFound == [kind |-> "notfound", option |-> 0, error |-> Absent]
SelRaised(msg) == [kind |-> "raised", option |-> 0, error |-> msg]

\* a loop without its bound
LoopContinues_Unbounded(i, cap) == TRUE

\* the test of the for loops: i < cap
LoopContinues(i, cap) == i < cap

\* a click that is not followed by a return
ClickReturns_FallsThrough(fn) == FALSE

\* the statement after the click of an option is "return true"
ClickReturns(fn) == TRUE

SelFns == {"chooseFromCombobox", "chooseMachineType", "pickFromOpenList"}
StartPc(fn) == CASE fn = "chooseFromCombobox" -> "cf_open"
                 [] fn = "chooseMachineType" -> "mt_open"
                 [] fn = "pickFromOpenList" -> "pk_open"

\* no session is running
SessionIdle ==
    /\ entry = "none" /\ req = NoRequest /\ est = NoRec /\ pc = "idle"
    /\ launches = 0 /\ acquired = {} /\ released = [h \in Handles |-> 0]
    /\ releaseOrder = <<>> /\ closeFailed = {} /\ fin = 0 /\ cur = 0
    /\ stg = 0 /\ seriesOk = FALSE /\ lastFail = NoFail /\ commitTried = {}
    /\ committed = <<>> /\ lineItems = <<>> /\ totalText = Absent
    /\ shareUrl = NoStr /\ shots = {} /\ pending = NoRec /\ ret = NoRec
    /\ resp = NoRec /\ failPc = "none" /\ phases = <<>> /\ stageLog = <<>>
    /\ csvSeen = "skipped" /\ diag = {}

\* a call of one Selector function: the control shows any window of its
\* options and has nothing selected, or the desired option
SelInit ==
    /\ SessionIdle
    /\ LibIdle
    /\ selFn \in SelFns
    /\ want \in Wants
    /\ hasControls \in BOOLEAN
    /\ window \in Windows
    /\ selected \in {0, OptionOf(want)}
    /\ initSel = selected
    /\ spc = StartPc(selFn)
    /\ si = 0 /\ scrolls = 0 /\ navSteps = 0 /\ picks = 0 /\ highlighted = 0
    /\ sret = NoRec

\* the call ends
SelReturn(result) == sret' = result /\ spc' = "done"

\* an option is clicked (or confirmed with Enter): the control selects it
SelPick(k) == selected' = k /\ picks' = picks + 1

selInput == <<selFn, want, hasControls, initSel>>

\* ------------------------------------------------------ chooseFromCombobox
\* the catch block of the scroll loop: wait for the list again, go on with
\* the next iteration or break
CF_Caught ==
    \E reconnect \in BOOLEAN :
        IF reconnect THEN si' = si + 1 /\ spc' = "cf_check"
        ELSE si' = si /\ spc' = "cf_giveup"

\* combo.click(), getAttribute('aria-controls'), list.waitFor(visible)
CF_Open ==
    /\ spc = "cf_open"
    /\ \E clickOk \in BOOLEAN, visible \in BOOLEAN :
         IF ~clickOk THEN SelReturn(SelRaised("locator.click: Timeout"))
         ELSE IF ~hasControls
         THEN SelReturn(SelRaised("combobox has no aria-controls"))
         ELSE IF ~visible
         THEN SelReturn(SelRaised("locator.waitFor: Timeout"))
         ELSE spc' = "cf_check" /\ sret' = sret
    /\ UNCHANGED <<sessVars, libVars, selInput, window, selected, si, scrolls,
                   navSteps, picks, highlighted>>

\* the loop test, the option count, and the reopening of an empty list
CF_Check ==
    /\ spc = "cf_check"
    /\ IF ~LoopContinues(si, ScrollCapLabel)
       THEN spc' = "cf_giveup" /\ UNCHANGED <<si, window>>
       ELSE IF window # {}
       THEN spc' = "cf_match" /\ UNCHANGED <<si, window>>
       ELSE \E reopened \in BOOLEAN, w \in Windows :
              /\ window' = w
              /\ IF ~reopened THEN CF_Caught
                 ELSE IF w = {} THEN spc' = "cf_giveup" /\ si' = si
                 ELSE spc' = "cf_match0" /\ si' = si
    /\ UNCHANGED <<sessVars, libVars, selInput, selected, scrolls, navSteps, picks,
                   highlighted, sret>>

\* the first rendered option whose name matches the pattern is clicked
CF_Match ==
    /\ spc \in {"cf_match", "cf_match0"}
    /\ LET hits == ByText(window, want)
       IN  IF hits # {}
           THEN \E clickOk \in BOOLEAN :
                  IF ~clickOk
                  THEN CF_Caught /\ UNCHANGED <<selected, picks, sret>>
                  ELSE /\ SelPick(First(hits))
                       /\ IF ClickReturns(selFn)
                          THEN SelReturn(SelFound(First(hits))) /\ si' = si
                          ELSE /\ si' = si + 1 /\ spc' = "cf_check"
                               /\ sret' = sret
           ELSE /\ IF spc = "cf_match" THEN spc' = "cf_scroll" /\ si' = si
                   ELSE spc' = "cf_check" /\ si' = si + 1
                /\ UNCHANGED <<selected, picks, sret>>
    /\ UNCHANGED <<sessVars, libVars, selInput, window, scrolls, navSteps,
                   highlighted>>

\* list.scrollBy by a third of its height; three ArrowDown presses when the
\* list shows no option afterwards
CF_Scroll ==
    /\ spc = "cf_scroll"
    /\ scrolls' = scrolls + 1
    /\ \E scrolled \in BOOLEAN, w \in Windows :
         IF ~scrolled THEN CF_Caught /\ window' = window
         ELSE window' = w /\ si' = si + 1 /\ spc' = "cf_check"
    /\ UNCHANGED <<sessVars, libVars, selInput, selected, navSteps, picks,
                   highlighted, sret>>

\* close the listbox with Escape and return false
CF_GiveUp ==
    /\ spc = "cf_giveup"
    /\ \E pressed \in BOOLEAN :
         IF pressed THEN SelReturn(SelNotFound)
         ELSE SelReturn(SelRaised("keyboard.press: Target closed"))
    /\ UNCHANGED <<sessVars, libVars, selInput, window, selected, si, scrolls,
                   navSteps, picks, highlighted>>

\* ------------------------------------------------------- chooseMachineType
\* locator.click() on a locator that matches several elements raises
\* (strict mode); otherwise it clicks or times out
MT_Click(hits, onward) ==
    IF Cardinality(hits) > 1
    THEN /\ SelReturn(SelRaised("strict mode violation"))
         /\ UNCHANGED <<selected, picks, si>>
    ELSE \E clickOk \in BOOLEAN :
           IF ~clickOk
           THEN /\ SelReturn(SelRaised("locator.click: Timeout"))
                /\ UNCHANGED <<selected, picks, si>>
           ELSE /\ SelPick(First(hits))
                /\ IF ClickReturns(selFn)
                   THEN SelReturn(SelFound(First(hits))) /\ si' = si
                   ELSE onward /\ sret' = sret

\* the options the two strategies find: by data-value, else by text
MT_Hits(win, code) ==
    IF ByValue(win, code) # {} THEN ByValue(win, code) ELSE ByText(win, code)

\* combo.click(), getAttribute('aria-controls'), list.waitFor(visible)
MT_Open ==
    /\ spc = "mt_open"
    /\ \E clickOk \in BOOLEAN, visible \in BOOLEAN :
         IF ~clickOk THEN SelReturn(SelRaised("locator.click: Timeout"))
         ELSE IF ~hasControls
         THEN SelReturn(SelRaised("combobox has no aria-controls"))
         ELSE IF ~visible
         THEN SelReturn(SelRaised("locator.waitFor: Timeout"))
         ELSE spc' = "mt_quick" /\ sret' = sret
    /\ UNCHANGED <<sessVars, libVars, selInput, window, selected, si, scrolls,
                   navSteps, picks, highlighted>>

\* strategies 1 and 2 on the options rendered when the list opens
MT_Quick ==
    /\ spc = "mt_quick"
    /\ LET hits == MT_Hits(window, want)
       IN  IF hits = {}
           THEN /\ spc' = "mt_probe" /\ si' = 0
                /\ UNCHANGED <<selected, picks, sret>>
           ELSE MT_Click(hits, spc' = "mt_probe" /\ si' = 0)
    /\ UNCHANGED <<sessVars, libVars, selInput, window, scrolls, navSteps,
                   highlighted>>

\* strategy 3: the loop test and both strategies on the rendered options
MT_Probe ==
    /\ spc = "mt_probe"
    /\ IF ~LoopContinues(si, ScrollCapCode)
       THEN /\ spc' = "mt_focus"
            /\ UNCHANGED <<si, selected, picks, sret>>
       ELSE LET hits == MT_Hits(window, want)
            IN  IF hits = {}
                THEN /\ spc' = "mt_scroll"
                     /\ UNCHANGED <<si, selected, picks, sret>>
                ELSE MT_Click(hits, spc' = "mt_probe" /\ si' = si + 1)
    /\ UNCHANGED <<sessVars, libVars, selInput, window, scrolls, navSteps,
                   highlighted>>

\* strategy 3: list.scrollBy by half its height; a failing scroll breaks
MT_Scroll ==
    /\ spc = "mt_scroll"
    /\ scrolls' = scrolls + 1
    /\ \E scrolled \in BOOLEAN, w \in Windows :
         IF ~scrolled THEN spc' = "mt_focus" /\ UNCHANGED <<si, window>>
         ELSE window' = w /\ si' = si + 1 /\ spc' = "mt_probe"
    /\ UNCHANGED <<sessVars, libVars, selInput, selected, navSteps, picks,
                   highlighted, sret>>

\* strategy 4: list.focus()
MT_Focus ==
    /\ spc = "mt_focus"
    /\ \E focused \in BOOLEAN, h \in {0} \cup OptionIds :
         IF ~focused THEN spc' = "mt_giveup" /\ UNCHANGED <<si, highlighted>>
         ELSE spc' = "mt_nav" /\ si' = 0 /\ highlighted' = h
    /\ UNCHANGED <<sessVars, libVars, selInput, window, selected, scrolls, navSteps,
                   picks, sret>>

\* strategy 4: read the highlighted option, confirm it with Enter when its
\* text holds the code, else press ArrowDown
MT_Nav ==
    /\ spc = "mt_nav"
    /\ IF ~LoopContinues(si, KeyNavCap)
       THEN /\ spc' = "mt_giveup"
            /\ UNCHANGED <<si, selected, picks, sret, navSteps, highlighted>>
       ELSE IF highlighted # 0
               /\ CiContains(ControlOptions[highlighted].text, want)
       THEN \E pressed \in BOOLEAN :
              /\ IF ~pressed
                 THEN /\ spc' = "mt_giveup"
                      /\ UNCHANGED <<si, selected, picks, sret>>
                 ELSE /\ SelPick(highlighted)
                      /\ IF ClickReturns(selFn)
                         THEN SelReturn(SelFound(highlighted)) /\ si' = si
                         ELSE /\ si' = si + 1 /\ sret' = sret
                              /\ spc' = "mt_nav"
              /\ UNCHANGED <<navSteps, highlighted>>
       ELSE \E pressed \in BOOLEAN, h \in {0} \cup OptionIds :
              /\ navSteps' = navSteps + 1
              /\ IF ~pressed
                 THEN spc' = "mt_giveup" /\ UNCHANGED <<si, highlighted>>
                 ELSE spc' = "mt_nav" /\ si' = si + 1 /\ highlighted' = h
              /\ UNCHANGED <<selected, picks, sret>>
    /\ UNCHANGED <<sessVars, libVars, selInput, window, scrolls>>

\* close the listbox with Escape and return false
MT_GiveUp ==
    /\ spc = "mt_giveup"
    /\ \E pressed \in BOOLEAN :
         IF pressed THEN SelReturn(SelNotFound)
         ELSE SelReturn(SelRaised("keyboard.press: Target closed"))
    /\ UNCHANGED <<sessVars, libVars, selInput, window, selected, si, scrolls,
                   navSteps, picks, highlighted>>

\* -------------------------------------------------------- pickFromOpenList
\* list.waitFor(visible), options.count(), the exact pass, the contains pass
PK_Open ==
    /\ spc = "pk_open"
    /\ \E visible \in BOOLEAN :
         IF ~visible THEN SelReturn(SelRaised("locator.waitFor: Timeout"))
         ELSE IF window = {}
         THEN SelReturn(SelRaised("No dropdown options visible"))
         ELSE spc' = "pk_scan" /\ sret' = sret
    /\ UNCHANGED <<sessVars, libVars, selInput, window, selected, si, scrolls,
                   navSteps, picks, highlighted>>

\* the option pickFromOpenList clicks: the first exact match, else the first
\* option whose text holds the label
PK_Hits(win, label) ==
    IF ExactText(win, label) # {} THEN ExactText(win, label)
    ELSE ByText(win, label)

PK_Scan ==
    /\ spc = "pk_scan"
    /\ LET hits == PK_Hits(window, want)
       IN  IF hits = {}
           THEN /\ SelReturn(SelRaised("Option not found in dropdown"))
                /\ UNCHANGED <<selected, picks>>
           ELSE \E clickOk \in BOOLEAN :
                  IF ~clickOk
                  THEN /\ SelReturn(SelRaised("locator.click: Timeout"))
                       /\ UNCHANGED <<selected, picks>>
                  ELSE /\ SelPick(First(hits))
                       /\ SelReturn(SelFound(First(hits)))
    /\ UNCHANGED <<sessVars, libVars, selInput, window, si, scrolls, navSteps,
                   highlighted>>

\* ----------------------------------------------------------------- SelNext
SelNext ==
    \/ CF_Open \/ CF_Check \/ CF_Match \/ CF_Scroll \/ CF_GiveUp
    \/ MT_Open \/ MT_Quick \/ MT_Probe \/ MT_Scroll \/ MT_Focus \/ MT_Nav
    \/ MT_GiveUp
    \/ PK_Open \/ PK_Scan

SelSpec == SelInit /\ [][SelNext]_vars

\* ============================================================== VM store
\* The zustand store of the spreadsheet: the configurations and the selected
\* ids.  The cost fields of a configuration are derived from the others and
\* are left out.

\* ------------------------------------------------------------------ bounds
\* largest number of rows in the table
MaxConfigs == 2
\* ids generateId hands out: one more than rows, so that a row can be
\* added after a removal
MaxIds == MaxConfigs + 1

\* everything the store operations leave alone
nonStoreVars == <<sessVars, selVars, comp, fieldVars, shareVars, urlVars,
                  concVars>>

\* MACHINE_TYPES[series][0]; Absent when the series has no machine types
FirstMachineType(series) ==
    CASE series = "E2" -> "e2-micro"
      [] series = "N2" -> "n2-standard-2"
      [] series = "C3" -> "c3-standard-4"
      [] series = "M3" -> "m3-ultramem-32"
      [] OTHER -> Absent

\* getMachineTypeSpecs: specs[machineType] || { vcpus: 2, memory: 8 }
GetMachineTypeSpecs(machineType) ==
    CASE machineType = "e2-micro" -> [vcpus |-> 1, memory |-> 1]
      [] machineType = "e2-medium" -> [vcpus |-> 1, memory |-> 4]
      [] machineType = "e2-standard-2" -> [vcpus |-> 2, memory |-> 8]
      [] machineType = "n2-standard-2" -> [vcpus |-> 2, memory |-> 8]
      [] machineType = "n2-standard-4" -> [vcpus |-> 4, memory |-> 16]
      [] machineType = "c3-standard-4" -> [vcpus |-> 4, memory |-> 16]
      [] machineType = "c3-standard-8" -> [vcpus |-> 8, memory |-> 32]
      [] machineType = "c3-standard-176" -> [vcpus |-> 176, memory |-> 704]
      [] machineType = "m3-ultramem-32" -> [vcpus |-> 32, memory |-> 976]
      [] OTHER -> [vcpus |-> 2, memory |-> 8]

\* createDefaultConfiguration(overrides), without an id
NewConfig(series, type, custom, vcpus, memory, diskSize) ==
    [id |-> 0, machineSeries |-> series, machineType |-> type,
     isCustom |-> custom, vcpus |-> vcpus, memory |-> memory,
     diskSize |-> diskSize]
DefaultConfiguration == NewConfig("E2", "e2-standard-2", FALSE, 2, 8, 50)

\* addPresetConfiguration: the configuration of a preset
PresetConfiguration(presetType) ==
    CASE presetType = "web-server" ->
             NewConfig("E2", "e2-medium", FALSE, 1, 4, 50)
      [] presetType = "database-server" ->
             NewConfig("N2", "n2-standard-4", FALSE, 4, 16, 200)
      [] presetType = "compute-intensive" ->
             NewConfig("C3", "c3-standard-8", FALSE, 8, 32, 100)
      [] OTHER -> DefaultConfiguration
\* the presets that are followed
PresetTypes == {"database-server"}

\* the ids of the rows of the table
IdsOf(configs) == {configs[k].id : k \in 1..Len(configs)}

\* a removal that forgets the selection
WithoutIds_Kept(sel, ids) == sel

\* selectedIds filtered by the removed ids
WithoutIds(sel, ids) == sel \ ids

\* addConfiguration for each configuration of a list, in order: each gets
\* the next id (generateId draws 9 random characters; the ids are taken to
\* be distinct)
RECURSIVE AddAll(_, _, _)
AddAll(configs, news, n) ==
    IF news = <<>> THEN configs
    ELSE AddAll(Append(configs, [Head(news) EXCEPT !.id = n + 1]),
                Tail(news), n + 1)

\* the store has room for k more configurations
Room(k) == Len(configurations) + k <= MaxConfigs /\ idCount + k <= MaxIds

StoreAdd(news) ==
    /\ Room(Len(news))
    /\ configurations' = AddAll(configurations, news, idCount)
    /\ idCount' = idCount + Len(news)
    /\ UNCHANGED <<selectedIds, nonStoreVars>>

\* addPresetConfiguration: addConfiguration for the preset
AddPresetConfiguration ==
    /\ comp = "store"
    /\ \E presetType \in PresetTypes :
         StoreAdd(<<PresetConfiguration(presetType)>>)

\* removeConfiguration and removeMultipleConfigurations: the rows and the
\* selection are filtered by the ids
RemoveConfigurations ==
    /\ comp = "store"
    /\ \E ids \in SUBSET IdsOf(configurations) :
         /\ ids # {}
         /\ configurations' =
                SelectSeq(configurations, LAMBDA c : c.id \notin ids)
         /\ selectedIds' = WithoutIds(selectedIds, ids)
    /\ UNCHANGED <<idCount, nonStoreVars>>

\* the updates that are followed, each one field and its new value: a
\* change of series and the custom switch
Updates ==
    [field : {"machineSeries"}, str : {"M3"}, flag : {FALSE}, num : {0}]
    \cup [field : {"isCustom"}, str : {""}, flag : BOOLEAN, num : {0}]

\* { ...config, ...updates }
Merge(config, u) ==
    CASE u.field = "machineType" -> [config EXCEPT !.machineType = u.str]
      [] u.field = "machineSeries" -> [config EXCEPT !.machineSeries = u.str]
      [] u.field = "isCustom" -> [config EXCEPT !.isCustom = u.flag]
      [] u.field = "vcpus" -> [config EXCEPT !.vcpus = u.num]
      [] u.field = "memory" -> [config EXCEPT !.memory = u.num]
      [] u.field = "diskSize" -> [config EXCEPT !.diskSize = u.num]

\* machineType, vcpus and memory reset to the first type of the series
ResetToSeries(config) ==
    LET first == FirstMachineType(config.machineSeries)
    IN  IF first = Absent THEN config
        ELSE [config EXCEPT !.machineType = first,
                            !.vcpus = GetMachineTypeSpecs(first).vcpus,
                            !.memory = GetMachineTypeSpecs(first).memory]

\* the body of updateConfiguration for the row with the id
UpdatedConfig(config, u) ==
    LET c0 == Merge(config, u)
        c1 == IF u.field = "machineType" /\ u.str # config.machineType
                 /\ ~c0.isCustom
              THEN [c0 EXCEPT !.vcpus = GetMachineTypeSpecs(u.str).vcpus,
                              !.memory = GetMachineTypeSpecs(u.str).memory]
              ELSE c0
        c2 == IF u.field = "machineSeries" /\ u.str # config.machineSeries
                 /\ ~c1.isCustom
              THEN ResetToSeries(c1) ELSE c1
        c3 == IF u.field = "isCustom" /\ u.flag
              THEN [c2 EXCEPT !.machineType = "custom"] ELSE c2
    IN  IF u.field = "isCustom" /\ ~u.flag /\ config.isCustom
        THEN ResetToSeries(c3) ELSE c3

UpdateConfiguration ==
    /\ comp = "store"
    /\ \E id \in IdsOf(configurations), u \in Updates :
         configurations' =
             [k \in 1..Len(configurations) |->
                 IF configurations[k].id = id
                 THEN UpdatedConfig(configurations[k], u)
                 ELSE configurations[k]]
    /\ UNCHANGED <<selectedIds, idCount, nonStoreVars>>

\* duplicateConfiguration and duplicateMultipleConfigurations: each row with
\* one of the ids is added again, in the order of the ids
DuplicateConfigurations ==
    /\ comp = "store"
    /\ \E ids \in SeqsUpTo(IdsOf(configurations), MaxConfigs) :
         /\ ids # <<>>
         /\ StoreAdd([k \in 1..Len(ids) |->
                CHOOSE c \in {configurations[j] : j \in 1..Len(configurations)} :
                    c.id = ids[k]])

\* toggleSelection for a row of the table
ToggleSelection ==
    /\ comp = "store"
    /\ \E id \in IdsOf(configurations) :
         selectedIds' = IF id \in selectedIds THEN selectedIds \ {id}
                        ELSE selectedIds \cup {id}
    /\ UNCHANGED <<configurations, idCount, nonStoreVars>>

\* selectAll and clearSelection: the master checkbox
SelectAll ==
    /\ comp = "store"
    /\ selectedIds' = IdsOf(configurations)
    /\ UNCHANGED <<configurations, idCount, nonStoreVars>>

ClearSelection ==
    /\ comp = "store"
    /\ selectedIds' = {}
    /\ UNCHANGED <<configurations, idCount, nonStoreVars>>

\* the cells of a CSV row that importFromCSV parses as numbers
CsvCells == {"", "500"}
\* parseInt(cell) || fallback
ParseIntOr(cell, fallback) ==
    CASE cell = "4" -> 4
      [] cell = "500" -> 500
      [] OTHER -> fallback
CsvRows == [vcpus : CsvCells, memory : {""}, diskSize : {""}]

\* importFromCSV: one configuration per row, each added in turn
ImportFromCSV ==
    /\ comp = "store"
    /\ \E rows \in SeqsUpTo(CsvRows, 1) :
         StoreAdd([k \in 1..Len(rows) |->
             NewConfig("E2", "e2-standard-2", FALSE,
                       ParseIntOr(rows[k].vcpus, 2),
                       ParseIntOr(rows[k].memory, 8),
                       ParseIntOr(rows[k].diskSize, 50))])

StoreInit ==
    /\ SessionIdle /\ SelectorIdle
    /\ comp = "store" /\ StoreIdle /\ FieldIdle /\ ShareIdle
    /\ UrlIdle /\ ConcIdle

StoreNext ==
    \/ AddPresetConfiguration \/ RemoveConfigurations \/ UpdateConfiguration
    \/ DuplicateConfigurations \/ ToggleSelection \/ SelectAll
    \/ ClearSelection \/ ImportFromCSV

StoreSpec == StoreInit /\ [][StoreNext]_vars

\* ================================================= instance-count field
\* The "Number of instances" field of the form, as the two implementations
\* set it.  The field is the environment: a write may set the value, be
\* ignored, or clear the field, and every interaction with it may raise.

\* ------------------------------------------------------- program constants
\* for (let i = 0; i < needed && i < 20; i++)
StepperCap == 20

\* ------------------------------------------------------------------ bounds
\* largest value the field shows
FieldMax == 30

\* everything the field component leaves alone
nonFieldVars == <<sessVars, selVars, comp, storeVars, shareVars, urlVars,
                  concVars>>

\* config.quantity / inst.numberOfInstances
FieldTargets == {1, 3, 25}
\* what the field shows when the stage starts
FieldStarts == {"", "1", "5"}

\* Number.prototype.toString; parseInt: NaN for the empty string
NaN == [nan |-> TRUE, n |-> 0]
ParseInt(text) ==
    IF text = "" THEN NaN
    ELSE [nan |-> FALSE, n |-> CHOOSE n \in 0..FieldMax : ToString(n) = text]
\* a > b for numbers that may be NaN
Greater(a, b) == ~a.nan /\ ~b.nan /\ a.n > b.n

\* a strategy that runs whatever the last read returned
Differs_Always(text, quantity) == TRUE

\* currentValue !== config.quantity.toString()
Differs(text, quantity) == text # ToString(quantity)

\* incrementsNeeded / decrementsNeeded: 0 when neither branch is taken
PressesNeeded(text, quantity) ==
    LET t == ParseInt(ToString(quantity))
        c == ParseInt(text)
    IN  IF Greater(t, c) THEN t.n - c.n
        ELSE IF Greater(c, t) THEN c.n - t.n
        ELSE 0

\* what a press of the stepper does to the field when it has an effect
Stepped(text, quantity) ==
    LET c == ParseInt(text)
    IN  IF c.nan THEN text
        ELSE IF Greater(ParseInt(ToString(quantity)), ParseInt(stepFrom))
             THEN ToString(IF c.n < FieldMax THEN c.n + 1 ELSE c.n)
        ELSE ToString(IF c.n > 0 THEN c.n - 1 ELSE c.n)

\* what the field shows after a write of the target
AfterWrite(text, quantity) == {ToString(quantity), text, ""}

NoSummary == [present |-> FALSE, instances |-> 0]

\* the catch block of the stage: the failure is logged and the stage is
\* skipped
F_Caught ==
    /\ fres' = "caught" /\ fpc' = "done"

\* strategies 1 to 3: fill and Enter; clear, type and Tab; fill and blur;
\* each followed by a read of the field
F_Fill ==
    /\ comp = "field" /\ fpc \in {"s1", "s2", "s3"}
    /\ LET k == CASE fpc = "s1" -> 1 [] fpc = "s2" -> 2 [] fpc = "s3" -> 3
           after == CASE fpc = "s1" -> "s2" [] fpc = "s2" -> "s3"
                      [] fpc = "s3" -> "s4"
       IN  IF k > 1 /\ ~Differs(curVal, target)
           THEN /\ fpc' = after
                /\ UNCHANGED <<field, curVal, tried, verified, fres>>
           ELSE /\ tried' = Append(tried, k)
                /\ \E raised \in BOOLEAN, text \in AfterWrite(field, target) :
                     /\ field' = text
                     /\ IF raised
                        THEN F_Caught /\ UNCHANGED <<curVal, verified>>
                        ELSE /\ curVal' = text
                             /\ verified' = (verified \/ ~Differs(text, target))
                             /\ fpc' = after /\ fres' = fres
    /\ UNCHANGED <<fImpl, target, presses, stepFrom, reread, summary,
                   nonFieldVars>>

\* strategy 4: the number of presses is computed from the last read
F_StepStart ==
    /\ comp = "field" /\ fpc = "s4"
    /\ IF ~Differs(curVal, target)
       THEN fpc' = "final" /\ UNCHANGED <<tried, stepFrom>>
       ELSE /\ tried' = Append(tried, 4)
            /\ stepFrom' = curVal
            /\ fpc' = "step"
    /\ UNCHANGED <<fImpl, target, field, curVal, verified, presses, reread,
                   fres, summary, nonFieldVars>>

\* strategy 4: one test of the loop; a press of the increment or decrement
\* button, or the end of the loop and the read of the field
F_Press ==
    /\ comp = "field" /\ fpc = "step"
    /\ IF presses < PressesNeeded(stepFrom, target) /\ presses < StepperCap
       THEN \E outcome \in {"stepped", "noeffect", "raised"} :
              IF outcome = "raised"
              THEN /\ fpc' = "stepread"
                   /\ UNCHANGED <<field, presses>>
              ELSE /\ presses' = presses + 1
                   /\ field' = IF outcome = "stepped"
                               THEN Stepped(field, target) ELSE field
                   /\ fpc' = fpc
       ELSE fpc' = "stepread" /\ UNCHANGED <<field, presses>>
    /\ UNCHANGED <<fImpl, target, curVal, tried, verified, stepFrom, reread,
                   fres, summary, nonFieldVars>>

\* strategy 4: currentValue = await instancesInput.inputValue()
F_StepRead ==
    /\ comp = "field" /\ fpc = "stepread"
    /\ \E raised \in BOOLEAN :
         IF raised THEN F_Caught /\ UNCHANGED <<curVal, verified>>
         ELSE /\ curVal' = field
              /\ verified' = (verified \/ ~Differs(field, target))
              /\ fpc' = "final" /\ fres' = fres
    /\ UNCHANGED <<fImpl, target, field, tried, presses, stepFrom, reread,
                   summary, nonFieldVars>>

\* the final check: the field is read and the outcome is logged; the
\* response of the endpoint has no line items
F_Final ==
    /\ comp = "field" /\ fpc = "final"
    /\ \E raised \in BOOLEAN :
         IF raised THEN F_Caught /\ UNCHANGED <<curVal, reread>>
         ELSE /\ curVal' = field /\ reread' = TRUE
              /\ fres' = "set" /\ fpc' = "done"
    /\ UNCHANGED <<fImpl, target, field, tried, verified, presses, stepFrom,
                   summary, nonFieldVars>>

\* addOneInstance: numInput.fill(String(inst.numberOfInstances)); an
\* exception leaves addOneInstance and fails the session
AF_Fill ==
    /\ comp = "field" /\ fpc = "a_fill"
    /\ tried' = Append(tried, 1)
    /\ \E raised \in BOOLEAN, text \in AfterWrite(field, target) :
         /\ field' = text
         /\ IF raised THEN fres' = "raised" /\ fpc' = "done"
            ELSE fres' = fres /\ fpc' = "a_push"
    /\ UNCHANGED <<fImpl, target, curVal, verified, presses, stepFrom,
                   reread, summary, nonFieldVars>>

\* addOneInstance: lineItemSummaries.push({ instances:
\* inst.numberOfInstances, ... })
AF_Push ==
    /\ comp = "field" /\ fpc = "a_push"
    /\ summary' = [present |-> TRUE, instances |-> target]
    /\ fres' = "set" /\ fpc' = "done"
    /\ UNCHANGED <<fImpl, target, field, curVal, tried, verified, presses,
                   stepFrom, reread, nonFieldVars>>

FieldInit ==
    /\ SessionIdle /\ SelectorIdle /\ StoreIdle /\ ShareIdle
    /\ UrlIdle /\ ConcIdle
    /\ comp = "field"
    /\ fImpl \in {"legacy", "automation"}
    /\ target \in FieldTargets
    /\ field \in FieldStarts
    /\ fpc = IF fImpl = "legacy" THEN "s1" ELSE "a_fill"
    /\ curVal = "" /\ tried = <<>> /\ verified = FALSE /\ presses = 0
    /\ stepFrom = "" /\ reread = FALSE /\ fres = "none"
    /\ summary = NoSummary

FieldNext ==
    \/ F_Fill \/ F_StepStart \/ F_Press \/ F_StepRead \/ F_Final
    \/ AF_Fill \/ AF_Push

FieldSpec == FieldInit /\ [][FieldNext]_vars

\* ====================================================== share-URL sources
\* The reading of the share URL, with the sources that are consulted.

\* everything the share component leaves alone
nonShareVars == <<sessVars, selVars, comp, storeVars, fieldVars, urlVars,
                  concVars>>

\* a source whose value was read, and the value
Consulted(source, value) == <<[source |-> source, value |-> value]>>

\* the sources runGcpCalculatorAutomation reads, in the order it reads them:
\* the input next to "Copy link", else a URL-bearing input (before or after
\* a click of "Copy link"); then a textbox; then a calculator link
ShareSources(obs) ==
    LET byCopyLink ==
            IF ~obs.copyLink THEN <<>>
            ELSE IF obs.candidateInput # NoStr
                 THEN Consulted("adjacentInput", InputValue(obs.candidateInput))
            ELSE IF obs.shareInput # NoStr
                 THEN Consulted("readonlyField", InputValue(obs.shareInput))
            ELSE IF obs.clickOk /\ obs.shareInputAfterClick # NoStr
                 THEN Consulted("readonlyField",
                                InputValue(obs.shareInputAfterClick))
            ELSE <<>>
        found1 == byCopyLink # <<>> /\ Truthy(byCopyLink[1].value)
        byTextbox ==
            IF ~found1 /\ obs.shareTextbox # NoStr
            THEN Consulted("textbox", InputValue(obs.shareTextbox))
            ELSE <<>>
        found2 == found1 \/ (byTextbox # <<>> /\ Truthy(byTextbox[1].value))
        byLink ==
            IF ~found2 /\ obs.anyLink # NoStr
            THEN Consulted("link", obs.anyLink) ELSE <<>>
    IN  byCopyLink \o byTextbox \o byLink

\* the observation of a share surface that shows nothing
NoShareObs ==
    [copyLink |-> FALSE, candidateInput |-> NoStr, shareInput |-> NoStr,
     clickOk |-> FALSE, shareInputAfterClick |-> NoStr,
     shareTextbox |-> NoStr, anyLink |-> NoStr]

\* runGcpCalculatorAutomation reads the share URL
SH_ReadSurface ==
    /\ comp = "share" /\ shpc = "read" /\ shImpl = "automation"
    /\ shLog' = ShareSources(shObs)
    /\ shUrl' = ReadShareUrl(shObs)
    /\ shpc' = "done"
    /\ UNCHANGED <<shImpl, shObs, shClip, nonShareVars>>

\* generateShareLink: "Copy link" was clicked; the clipboard is read
SH_ReadClipboard ==
    /\ comp = "share" /\ shpc = "read" /\ shImpl = "legacy"
    /\ shLog' = Consulted("clipboard",
                          IF shClip = ThrowsStr THEN NoStr ELSE shClip)
    /\ shUrl' = IF shClip # ThrowsStr /\ AcceptsClipboard(shClip)
                THEN shClip ELSE NoStr
    /\ shpc' = "done"
    /\ UNCHANGED <<shImpl, shObs, shClip, nonShareVars>>

ShareInit ==
    /\ SessionIdle /\ SelectorIdle /\ StoreIdle /\ FieldIdle
    /\ UrlIdle /\ ConcIdle
    /\ comp = "share"
    /\ \/ /\ shImpl = "automation" /\ shObs \in ShareObservations
          /\ shClip = NoStr
       \/ /\ shImpl = "legacy" /\ shObs = NoShareObs
          /\ shClip \in ShareTexts \cup {ThrowsStr}
    /\ shLog = <<>> /\ shUrl = NoStr /\ shpc = "read"

ShareNext == SH_ReadSurface \/ SH_ReadClipboard

ShareSpec == ShareInit /\ [][ShareNext]_vars

\* ------------------------------------------------- generateIndividualUrls
\* The function exists twice: lib/gcpUrlGenerator.ts awaits one fetch per
\* loop turn ("sequential"); the copy in part_010 maps every configuration
\* to a promise and awaits Promise.allSettled ("allSettled").
MaxUrlConfigs == 3
nonUrlVars == <<sessVars, selVars, comp, storeVars, fieldVars, shareVars,
                concVars>>

\* 'https://cloud.google.com/products/calculator', the url of a failed result
CalcUrl == <<"https://", TargetDomain, CalcPath>>
NoReply == [kind |-> "none"]
\* how a request can end: the JSON body of the response, or a rejected
\* fetch / response.json()
Replies ==
    [kind : {"json"}, success : {TRUE}, shareUrl : {GoodUrl, NoStr},
     error : {NoStr}]
    \cup [kind : {"json"}, success : {FALSE}, shareUrl : {NoStr},
          error : {NoStr, <<"Automation failed">>}]
    \cup {[kind |-> "reject", success |-> FALSE, shareUrl |-> NoStr,
           error |-> <<"fetch failed">>]}

\* x || d for strings
OrElse(x, d) == IF Truthy(x) THEN x ELSE d

\* the entry pushed for one configuration by the loop of gcpUrlGenerator.ts
SequentialResult(id, reply) ==
    IF reply.kind = "reject"
    THEN [id |-> id, url |-> CalcUrl, error |-> reply.error]
    ELSE IF reply.success /\ Truthy(reply.shareUrl)
    THEN [id |-> id, url |-> reply.shareUrl, error |-> NoStr]
    ELSE [id |-> id, url |-> CalcUrl,
          error |-> OrElse(reply.error, <<"Unknown error">>)]

\* the value of one mapped promise in part_010: generateGcpCalculatorUrl
\* returns data.shareUrl or throws, and the closure catches
SettledResult(id, reply) ==
    IF reply.kind = "reject"
    THEN [id |-> id, url |-> CalcUrl, error |-> reply.error]
    ELSE IF ~reply.success
    THEN [id |-> id, url |-> CalcUrl,
          error |-> OrElse(reply.error,
                           <<"Failed to generate GCP calculator URL">>)]
    ELSE IF ~Truthy(reply.shareUrl)
    THEN [id |-> id, url |-> CalcUrl,
          error |-> <<"No share URL returned from the service">>]
    ELSE [id |-> id, url |-> reply.shareUrl, error |-> NoStr]

InFlight == {k \in 1..Len(gReq) : gReq[k] = "inflight"}

\* one turn of the for loop: fetch for configs[i], i the next index
G_Send ==
    /\ comp = "urls" /\ gImpl = "sequential" /\ gpc = "loop"
    /\ Len(gResults) < Len(gConfigs)
    /\ gReq' = [gReq EXCEPT ![Len(gResults) + 1] = "inflight"]
    /\ gpc' = "awaiting"
    /\ UNCHANGED <<gImpl, gConfigs, gGot, gResults, nonUrlVars>>

\* configs.map(async ...): every closure runs up to its first await, which
\* is the fetch, before Promise.allSettled is reached
G_Map ==
    /\ comp = "urls" /\ gImpl = "allSettled" /\ gpc = "loop"
    /\ gReq' = [k \in 1..Len(gConfigs) |-> "inflight"]
    /\ gpc' = "awaiting"
    /\ UNCHANGED <<gImpl, gConfigs, gGot, gResults, nonUrlVars>>

\* a request in flight ends; the awaiting code runs to its next await
G_Settle ==
    /\ comp = "urls" /\ gpc = "awaiting"
    /\ \E k \in InFlight, reply \in Replies :
         /\ gReq' = [gReq EXCEPT ![k] = "settled"]
         /\ gGot' = [gGot EXCEPT ![k] = reply]
         /\ IF gImpl = "sequential"
            THEN /\ gResults' = Append(gResults,
                                       SequentialResult(gConfigs[k], reply))
                 /\ gpc' = IF k < Len(gConfigs) THEN "delay" ELSE "loop"
            ELSE /\ gResults' = gResults
                 /\ gpc' = gpc
    /\ UNCHANGED <<gImpl, gConfigs, nonUrlVars>>

\* await new Promise(resolve => setTimeout(resolve, 1000))
G_Delay ==
    /\ comp = "urls" /\ gpc = "delay"
    /\ gpc' = "loop"
    /\ UNCHANGED <<gImpl, gConfigs, gReq, gGot, gResults, nonUrlVars>>

\* return results / return results.map(...)
G_Return ==
    /\ comp = "urls"
    /\ \/ /\ gImpl = "sequential" /\ gpc = "loop"
          /\ Len(gResults) = Len(gConfigs)
          /\ gResults' = gResults
       \/ /\ gImpl = "allSettled" /\ gpc = "awaiting" /\ InFlight = {}
          /\ gResults' = [k \in 1..Len(gConfigs) |->
                            SettledResult(gConfigs[k], gGot[k])]
    /\ gpc' = "done"
    /\ UNCHANGED <<gImpl, gConfigs, gReq, gGot, nonUrlVars>>

UrlInit ==
    /\ SessionIdle /\ SelectorIdle /\ StoreIdle /\ FieldIdle /\ ShareIdle
    /\ ConcIdle
    /\ comp = "urls"
    /\ gImpl \in {"sequential", "allSettled"}
    /\ \E n \in 0..MaxUrlConfigs :
         /\ gConfigs = [k \in 1..n |-> k]
         /\ gReq = [k \in 1..n |-> "unsent"]
         /\ gGot = [k \in 1..n |-> NoReply]
    /\ gResults = <<>>
    /\ gpc = "loop"

UrlNext == G_Send \/ G_Map \/ G_Settle \/ G_Delay \/ G_Return

UrlSpec == UrlInit /\ [][UrlNext]_vars

\* ------------------------------------------- two sessions running together
\* Two calls of runGcpCalculatorAutomation in one server process.  Each
\* launches its own browser; the artifact paths are the same for both.
nonConcVars == <<sessVars, selVars, comp, storeVars, fieldVars, shareVars,
                 urlVars>>

\* launch, newContext, newPage: a browser of its own with an empty estimate
C_Launch ==
    \E s \in Sessions :
    /\ cpc[s] = "launch"
    /\ cBrowser' = [cBrowser EXCEPT ![s] = Len(cPages) + 1]
    /\ cPages' = Append(cPages, <<>>)
    /\ cpc' = [cpc EXCEPT ![s] = "add"]
    /\ UNCHANGED <<cCollect, cFiles, cAttached, cOut,
                   nonConcVars>>

\* ensureDir, unlinkSync(consoleLogPath) in try/catch, createWriteStream:
\* the unlink removes the file at the path, and a stream another call had
\* opened on it keeps writing to the removed file; where the platform
\* refuses to remove an open file the catch swallows it and both append
C_Setup ==
    \E s \in Sessions :
    /\ cpc[s] = "setup"
    /\ IF ~cCollect[s]
       THEN UNCHANGED <<cFiles, cAttached>>
       ELSE \E unlinked \in BOOLEAN :
              IF unlinked \/ cAttached = {}
              THEN /\ cFiles' = [cFiles EXCEPT !["console.log"] = {}]
                   /\ cAttached' = {s}
              ELSE /\ cFiles' = cFiles
                   /\ cAttached' = cAttached \cup {s}
    /\ cpc' = [cpc EXCEPT ![s] = "launch"]
    /\ UNCHANGED <<cCollect, cBrowser, cPages, cOut,
                   nonConcVars>>

\* page.on('console'): a line of this session's page goes to its stream
C_Console ==
    \E s \in Sessions :
    /\ cpc[s] \in {"add", "estimate", "share"}
    /\ cCollect[s]
    /\ cFiles' = IF s \in cAttached
                 THEN [cFiles EXCEPT !["console.log"] = @ \cup {s}]
                 ELSE cFiles
    /\ UNCHANGED <<cCollect, cpc, cBrowser, cPages, cAttached, cOut,
                   nonConcVars>>

\* addOneInstance: the instance goes to the estimate of the session's page
C_Add ==
    \E s \in Sessions :
    /\ cpc[s] = "add"
    /\ cPages' = [cPages EXCEPT ![cBrowser[s]] = Append(@, s)]
    /\ cpc' = [cpc EXCEPT ![s] = "estimate"]
    /\ UNCHANGED <<cCollect, cBrowser, cFiles, cAttached, cOut,
                   nonConcVars>>

\* page.screenshot({ path }) for estimatePng, then sharePng
C_Screenshot ==
    \E s \in Sessions :
    /\ cpc[s] \in {"estimate", "share"}
    /\ cFiles' = IF cCollect[s]
                 THEN [cFiles EXCEPT ![IF cpc[s] = "estimate"
                                       THEN "estimate.png"
                                       ELSE "share.png"] = {s}]
                 ELSE cFiles
    /\ cpc' = [cpc EXCEPT ![s] = IF cpc[s] = "estimate" THEN "share"
                                 ELSE "finally"]
    /\ UNCHANGED <<cCollect, cBrowser, cPages, cAttached, cOut,
                   nonConcVars>>

\* the files at the paths a result reports
HeldBy(files, collect) ==
    [present |-> collect,
     consoleLogs |-> IF collect THEN files["console.log"] ELSE {},
     networkLogs |-> IF collect THEN files["network.har"] ELSE {},
     estimatePanel |-> IF collect THEN files["estimate.png"] ELSE {},
     shareMenu |-> IF collect THEN files["share.png"] ELSE {}]

\* return out through finally: consoleStream.end(), context.close() (which
\* writes the HAR), browser.close(); the caller receives out
C_Return ==
    \E s \in Sessions :
    /\ cpc[s] = "finally"
    /\ cAttached' = cAttached \ {s}
    /\ cFiles' = IF cCollect[s]
                 THEN [cFiles EXCEPT !["network.har"] = {s}]
                 ELSE cFiles
    /\ cOut' = [cOut EXCEPT ![s] =
                  [kind |-> "out",
                   lineItems |-> <<s>>,
                   shareUrl |-> cPages[cBrowser[s]],
                   artifacts |-> HeldBy(cFiles', cCollect[s])]]
    /\ cpc' = [cpc EXCEPT ![s] = "done"]
    /\ UNCHANGED <<cCollect, cBrowser, cPages,
                   nonConcVars>>

ConcInit ==
    /\ SessionIdle /\ SelectorIdle /\ StoreIdle /\ FieldIdle /\ ShareIdle
    /\ UrlIdle
    /\ comp = "conc"
    /\ cCollect \in [Sessions -> BOOLEAN]
    /\ cpc = [s \in Sessions |-> "setup"]
    /\ cBrowser = [s \in Sessions |-> 0]
    /\ cPages = <<>>
    /\ cFiles = [f \in ArtifactFiles |-> {}]
    /\ cAttached = {}
    /\ cOut = [s \in Sessions |-> NoOut]

ConcNext ==
    C_Setup \/ C_Launch \/ C_Console \/ C_Add \/ C_Screenshot \/ C_Return

ConcSpec == ConcInit /\ [][ConcNext]_vars

\* ------------------------------------------------------------------ claims
\* the session function has returned or raised
SessionEnded == ret # NoRec
\* the session function returned a result object
Returned == ret.kind = "out"

\* quantity >= 1 and 1 <= runningHours <= 744
InBounds(config) ==
    /\ config.quantity >= 1
    /\ config.runningHours >= 1 /\ config.runningHours <= 744
AllInBounds(configs) ==
    Len(configs) > 0 /\ \A k \in 1..Len(configs) : InBounds(configs[k])

\* C1: for every request handled by a POST endpoint, a browser is launched
\* only if the configuration list is non-empty and every configuration is
\* within bounds.
C1_ValidationPrecedesLaunch ==
    (entry \in {"adapterPOST", "legacyPOST"} /\ req.parses /\ launches > 0)
        => AllInBounds(req.configurations)

\* the three resources, in the order page, context, process
Rank(h) == CASE h = "page" -> 1 [] h = "context" -> 2 [] h = "browser" -> 3
             [] OTHER -> 0
ResourceReleases == SelectSeq(releaseOrder, LAMBDA h : h \in Resources)

\* C2: when the session ends, every acquired resource (page, context,
\* browser process) has been released exactly once; no resource is ever
\* released twice.
C2_ReleasedExactlyOnce ==
    /\ \A r \in Resources : released[r] <= 1
    /\ SessionEnded => \A r \in Resources \cap acquired : released[r] = 1

\* a session that acquired all three resources, failed at a later step and
\* returned
C2_Witness ==
    /\ Returned /\ ~ret.success
    /\ Resources \subseteq acquired
    /\ \A r \in Resources : released[r] = 1

\* C3: resources are released in the order page, context, process: no
\* release of a resource follows the release of one that ranks after it,
\* and at the end the acquired resources have been released in that order.
C3_TeardownOrder ==
    /\ \A i, j \in 1..Len(ResourceReleases) :
          i < j => Rank(ResourceReleases[i]) < Rank(ResourceReleases[j])
    /\ SessionEnded =>
          ResourceReleases = SelectSeq(CascadeOrder, LAMBDA h : h \in acquired)

\* a successful session whose three resources were released in order
C3_Witness ==
    /\ Returned /\ ret.success
    /\ ResourceReleases = <<"page", "context", "browser">>

\* C4: when a close raises, every other acquired resource is still
\* released, and the session returns the result the try/catch block
\* produced.
C4_IndependentRelease ==
    (SessionEnded /\ closeFailed # {}) =>
        /\ \A r \in Resources \cap acquired : released[r] >= 1
        /\ \A h \in acquired :
              (\E k \in 1..Len(FinallyCloses(Impl)) : FinallyCloses(Impl)[k] = h)
                  => \E k \in 1..Len(releaseOrder) : releaseOrder[k] = h
        /\ ret = pending

\* a session that returned success although the first close of its finally
\* block raised
C4_Witness ==
    /\ Returned /\ ret.success
    /\ closeFailed \cap {"context", "page"} # {}
    /\ released["browser"] = 1

\* C5: runGcpCalculatorAutomation never raises to its caller.
C5_NoFaultCrossesBoundary ==
    Impl = "automation" => ret # Raised

\* a syntactically valid absolute URL on the target domain
IsAbsoluteUrlOnTarget(s) ==
    /\ Len(s) >= 2
    /\ s[1] \in {"https://", "http://"}
    /\ s[2] = TargetDomain
    /\ \A k \in 1..Len(s) : s[k] # " "

\* C6: a successful result carries a shareUrl that is a valid absolute URL
\* on cloud.google.com.
C6_ShareUrlOnTargetDomain ==
    (Returned /\ ret.success) => IsAbsoluteUrlOnTarget(ret.shareUrl)

\* the instances of the request, as the session is to configure them
RequestInstances ==
    IF Impl = "automation" THEN est.instances
    ELSE [k \in 1..Len(req.configurations) |->
             VmConfigToInstanceInput(req.configurations[k])]

\* C7: instances are committed in request order, one at a time, and a
\* successful result has one line item per request instance, entry i
\* echoing instance i.
C7_RequestOrderPreserved ==
    /\ \A k \in 1..Len(committed) : committed[k] = k
    /\ cur > 1 => Len(committed) >= cur - 1
    /\ (Returned /\ ret.success) =>
          /\ ret.hasSummary
          /\ Len(ret.lineItems) = Len(RequestInstances)
          /\ \A k \in 1..Len(RequestInstances) :
                ret.lineItems[k] =
                    LineItemOf(RequestInstances[k], ret.lineItems[k].subtotalText)

ExtractionErrors == {"Total not found or not formatted as currency",
                     "Failed to click Share button",
                     "Failed to capture share URL from Share UI",
                     "Share URL not found in clipboard"}

\* C8: after a Commit failure the session goes on with the remaining
\* instances, and the session fails only if nothing was committed or total
\* or share extraction failed.
C8_CommitFailureContinues ==
    (Returned /\ lastFail.kind # "none" /\ lastFail.stage = "Commit") =>
        /\ commitTried = 1..Len(RequestInstances)
        /\ ~ret.success =>
              (committed = <<>> \/ ret.error \in ExtractionErrors)

\* C9: a failed stage other than Commit is skipped and its instance still
\* reaches the Commit stage.
C9_BestEffortStages ==
    (Returned /\ lastFail.kind # "none"
       /\ lastFail.stage \notin {"Commit", "Verify"}) =>
        lastFail.inst \in commitTried

\* C10: a successful result implies that at least one instance was
\* committed to the estimate.
C10_SuccessImpliesCommit ==
    (Returned /\ ret.success) => committed # <<>>

\* the statements that open the share surface and read the share URL
SharePcs == {"a_share", "a_readshare", "l_share", "l_copy"}
\* the error messages that name the share step
ShareExtractionErrors == {"Failed to click Share button",
                          "Failed to capture share URL from Share UI",
                          "Could not find copy link button",
                          "Share URL not found in clipboard"}

\* C15: when opening the share surface or reading the share URL fails, the
\* result has success = false, carries no shareUrl, and its error names the
\* share extraction as the failing stage.
C15_ExtractionFailedReported ==
    (Returned /\ failPc \in SharePcs) =>
        /\ ~ret.success
        /\ ret.shareUrl = NoStr
        /\ ret.error \in ShareExtractionErrors

\* the request asks for the CSV link
WantsCsv == est.kind = "est" /\ est.wantCsvLink

Reached(p) == \E k \in 1..Len(phases) : phases[k] = p

\* C17: a successful result carries a total that was read from the page and
\* holds a currency amount, and the share surface is opened only after the
\* total was validated.
C17_TotalGatesSuccess ==
    /\ (Returned /\ ret.success) =>
          /\ Reached("TotalValidated")
          /\ ret.hasSummary
          /\ ret.totalText # Absent /\ HasCurrency(ret.totalText)
    /\ Reached("ShareSurfaceOpen") => Reached("TotalValidated")

\* the phases of a session, in the order of the specification
PhaseOrder == <<"ProductPickerOpen", "ProductSelected", "InstanceSequenced",
                "TotalValidated", "ShareSurfaceOpen", "ShareUrlExtracted",
                "CsvLinkExtracted", "Done">>
PhaseRank(p) ==
    IF p = "Failed" THEN 0
    ELSE CHOOSE k \in 1..Len(PhaseOrder) : PhaseOrder[k] = p
\* q may follow p: the per-instance sequence repeats, the CSV link is
\* optional, every other phase follows its predecessor
MayFollow(p, q) ==
    \/ q = "Failed"
    \/ p # "Failed" /\ PhaseRank(q) = PhaseRank(p) + 1
    \/ p = "InstanceSequenced" /\ q = "InstanceSequenced"
    \/ p = "ShareUrlExtracted" /\ q = "Done"

\* C18: the phases of a session occur in the order picker opened, product
\* selected, per-instance sequences, total validated, share surface opened,
\* share URL extracted, optional CSV link, done; a phase starts only after
\* its predecessor, nothing follows a failure, and a successful session has
\* completed every phase.
C18_PhaseOrder ==
    /\ phases # <<>> => phases[1] \in {"ProductPickerOpen", "Failed"}
    /\ \A k \in 1..(Len(phases) - 1) :
          phases[k] # "Failed" /\ MayFollow(phases[k], phases[k + 1])
    /\ (Returned /\ ret.success) =>
          \A k \in 1..Len(PhaseOrder) :
              (PhaseOrder[k] # "CsvLinkExtracted") => Reached(PhaseOrder[k])

\* the per-instance stages, in the order of the specification
StageOrder == <<"SelectRegion", "SelectProvisioningModel", "SelectSeries",
                "SettleWait", "SelectMachineType", "SetInstanceCount",
                "SetUsageHours", "SetUnits", "SetTimePeriod",
                "SelectOperatingSystem", "SelectCommittedUse", "Commit">>

\* C19: the stages of an instance are attempted in exactly the order
\* SelectRegion, SelectProvisioningModel, SelectSeries, settle wait,
\* SelectMachineType, SetInstanceCount, SetUsageHours, SetUnits,
\* SetTimePeriod, SelectOperatingSystem, SelectCommittedUse, Commit.
C19_StageOrder ==
    /\ Len(stageLog) <= Len(StageOrder)
    /\ \A k \in 1..Len(stageLog) : stageLog[k] = StageOrder[k]

\* artifact collection is off: the POST endpoints never turn it on
DiagnosticsDisabled ==
    \/ entry \in {"adapterPOST", "legacyPOST"}
    \/ est.kind = "est" /\ ~est.collectArtifacts

\* C20: with collectArtifacts not true a session takes no screenshot,
\* attaches no console listener, creates no artifact directory, log file or
\* HAR recording, and its result carries no artifacts.
C20_DiagnosticsInert ==
    DiagnosticsDisabled =>
        /\ shots = {}
        /\ diag = {}
        /\ "consoleStream" \notin acquired
        /\ Returned => (~ret.artifacts.present /\ ret.artifacts.screenshots = {})

\* a session without artifact collection that committed its instances,
\* opened the share surface and returned
C20_Witness ==
    /\ DiagnosticsDisabled /\ Returned /\ ret.success
    /\ committed # <<>> /\ Reached("ShareSurfaceOpen")

\* ---------------------------------------------------------- Selector claims
\* the Selector call has returned or raised
SelEnded == sret # NoRec

\* what a Selector function raises for a fault of the control, the list or
\* the page; the other messages report that the option was not found
StructuralErrors == {"combobox has no aria-controls", "locator.click: Timeout",
                     "locator.waitFor: Timeout", "strict mode violation",
                     "keyboard.press: Target closed"}

\* C11: a Selector call raises only for structural errors; that the desired
\* option is not in the list, or that the list is empty, is reported as the
\* return value not-found.
C11_NotFoundIsReturned ==
    (SelEnded /\ sret.kind = "raised") => sret.error \in StructuralErrors

\* a natural number that every step of a Selector call decreases
SelMeasure ==
    CASE spc = "done" -> 0
      [] spc \in {"cf_giveup", "mt_giveup", "pk_scan"} -> 1
      [] spc = "pk_open" -> 2
      [] spc = "cf_scroll" -> 2 + 3 * (ScrollCapLabel - si)
      [] spc \in {"cf_match", "cf_match0"} -> 3 + 3 * (ScrollCapLabel - si)
      [] spc = "cf_check" -> 4 + 3 * (ScrollCapLabel - si)
      [] spc = "cf_open" -> 5 + 3 * ScrollCapLabel
      [] spc = "mt_nav" -> 2 + (KeyNavCap - si)
      [] spc = "mt_focus" -> 3 + KeyNavCap
      [] spc = "mt_scroll" -> 4 + KeyNavCap + 2 * (ScrollCapCode - si)
      [] spc = "mt_probe" -> 5 + KeyNavCap + 2 * (ScrollCapCode - si)
      [] spc = "mt_quick" -> 6 + KeyNavCap + 2 * ScrollCapCode
      [] spc = "mt_open" -> 7 + KeyNavCap + 2 * ScrollCapCode

C13_AtMostOneSelection ==
    /\ picks <= 1
    /\ picks = 1 => (spc = "done" /\ sret = SelFound(selected))
    /\ (SelEnded /\ sret.kind = "found") => picks = 1

\* chooseFromCombobox clicked the option after scrolling the list
C13_Witness ==
    /\ selFn = "chooseFromCombobox" /\ SelEnded /\ sret.kind = "found"
    /\ picks = 1 /\ scrolls > 0

\* C14: chooseFromCombobox, called for the option X that the control has
\* selected, leaves X selected.
C14_SelectorIdempotent ==
    (selFn = "chooseFromCombobox" /\ initSel # 0 /\ initSel = OptionOf(want))
        => selected = initSel

\* --------------------------------------------------------- VM store claims
\* C22: in every state of the VM store every configuration has vCPUs within
\* 1..96, memory within 1..384 GB and disk size within 10..65536 GB.
C22_ConfigurationBounds ==
    \A k \in 1..Len(configurations) :
        /\ configurations[k].vcpus \in 1..96
        /\ configurations[k].memory \in 1..384
        /\ configurations[k].diskSize \in 10..65536

Min(a, b) == IF a < b THEN a ELSE b

\* C23: a strategy of the instance-count field is attempted only if the
\* value read after the strategy before it differs from the target; once a
\* read after a write returned the target no strategy writes or presses;
\* and the stepper is pressed at most min(|target - current|, 20) times.
C23_LayeredFieldSetting ==
    /\ [](fImpl = "legacy" =>
            presses <= Min(PressesNeeded(stepFrom, target), 20))
    /\ [][fImpl = "legacy" =>
            /\ (tried' # tried /\ tried # <<>>) =>
                   curVal # ToString(target)
            /\ verified => (tried' = tried /\ presses' = presses
                               /\ field' = field)]_fieldVars

\* the stepper was pressed 20 times towards a target more than 20 away
C23_Witness ==
    /\ fImpl = "legacy" /\ fpc = "done" /\ tried = <<1, 2, 3, 4>>
    /\ presses = 20 /\ PressesNeeded(stepFrom, target) > 20

\* C24: the stage always ends with a read of the field; when the field does
\* not show the requested count, the stage has not failed the session and
\* the line item of the result does not report the requested count.
C24_DiscrepancySurfaced ==
    fpc = "done" =>
        /\ fres # "caught" => reread
        /\ field # ToString(target) =>
              /\ fres # "raised"
              /\ summary.present /\ summary.instances # target

\* ------------------------------------------------------ share-URL claims
\* source number k of the reading gave a valid share URL
GaveValidUrl(k) ==
    shLog[k].value # NoStr /\ IsAbsoluteUrlOnTarget(shLog[k].value)

\* C25: the clipboard is read only as the last resort, after the readonly
\* field and the adjacent input were read and gave no valid URL; a source
\* is read only if no source before it gave a valid URL; and the URL
\* returned is the first valid URL that was read.
C25_ShareReadOrder ==
    shpc = "done" =>
        /\ \A k \in 1..Len(shLog) :
              shLog[k].source = "clipboard" =>
                  /\ k = Len(shLog)
                  /\ \E i \in 1..(k - 1) : shLog[i].source = "readonlyField"
                  /\ \E i \in 1..(k - 1) : shLog[i].source = "adjacentInput"
        /\ \A k \in 1..Len(shLog) : \A i \in 1..(k - 1) : ~GaveValidUrl(i)
        /\ shUrl # NoStr =>
              \E k \in 1..Len(shLog) :
                  GaveValidUrl(k) /\ shUrl = shLog[k].value

\* -------------------------------------------------------- termination
\* the steps the instance loop can still take, for the largest request
StageSpan == Len(AutoStages) * MaxInst

\* a natural number that every step of a session decreases
SessMeasure ==
    CASE pc \in {"done", "idle"} -> 0
      [] pc = "a_respond" -> 1
      [] pc = "finally" -> 2 + (4 - fin)
      [] pc \in {"a_finish", "l_copy"} -> 6
      [] pc = "a_readshare" -> 7
      [] pc = "a_shareshot" -> 8
      [] pc \in {"a_share", "l_share"} -> 9
      [] pc = "a_total" -> 10
      [] pc = "a_stage" ->
             11 + Len(AutoStages) * (Len(Instances) - cur)
                + (Len(AutoStages) - stg)
      [] pc = "l_stage" -> 11 + (Len(LegacyStages) - stg)
      [] pc \in {"a_product", "l_product"} -> 12 + StageSpan
      [] pc \in {"a_picker", "l_picker"} -> 13 + StageSpan
      [] pc \in {"a_goto", "l_goto"} -> 14 + StageSpan
      [] pc \in {"a_page", "l_page"} -> 15 + StageSpan
      [] pc \in {"a_context", "l_context"} -> 16 + StageSpan
      [] pc \in {"a_launch", "l_launch"} -> 17 + StageSpan
      [] pc = "a_setup" -> 18 + StageSpan
      [] pc = "post" -> 19 + StageSpan

C28_LegacyConversionCompletes ==
    (/\ entry = "adapterPOST" /\ pc # "post"
     /\ req.parses /\ ValidateVmConfigsForAutomation(req.configurations))
    => (est # NoRec /\ Len(est.instances) = Len(req.configurations))

\* --------------------------------------------------- generateIndividualUrls
\* the request ended without a usable share URL
ReplyFailed(reply) ==
    reply.kind = "reject" \/ ~reply.success \/ ~Truthy(reply.shareUrl)

\* the results are one per configuration, in input order, with an error
\* exactly for the failed requests
ResultsInOrder ==
    /\ Len(gResults) = Len(gConfigs)
    /\ \A k \in 1..Len(gConfigs) :
         /\ gResults[k].id = gConfigs[k]
         /\ gResults[k].error # NoStr <=> ReplyFailed(gGot[k])

\* C29: generateIndividualUrls has at most one request in flight at any
\* time, and when it returns it returns one result per configuration in
\* input order, with an error exactly when that request failed or gave no
\* shareUrl.
C29_OneByOne ==
    /\ Cardinality(InFlight) <= 1
    /\ gpc = "done" => ResultsInOrder

\* ------------------------------------------------- match-strategy priority
\* the step selects an option that a label match found: chooseFromCombobox
\* and pickFromOpenList match labels only, chooseMachineType matches labels
\* when no rendered option carries the data-value
PicksByLabel ==
    /\ picks' > picks
    /\ \/ spc \in {"cf_match", "cf_match0", "pk_scan"}
       \/ spc \in {"mt_quick", "mt_probe"} /\ ByValue(window, want) = {}

\* C27: on every probe of the rendered options the data-value match comes
\* before the label match: an option is selected through a label match only
\* when no rendered option has the data-value asked for.
C27_ExactBeforeLabel == [][PicksByLabel => ByValue(window, want) = {}]_selVars

\* ------------------------------------------------------ request isolation
\* what session s returns when no other session runs: its own instance,
\* the estimate of its own page, and artifact files written by itself
AsIfAlone(s, out) ==
    /\ out.lineItems = <<s>>
    /\ out.shareUrl = <<s>>
    /\ out.artifacts.present = cCollect[s]
    /\ out.artifacts.consoleLogs \subseteq {s}
    /\ cCollect[s] =>
          /\ out.artifacts.networkLogs = {s}
          /\ out.artifacts.estimatePanel = {s}
          /\ out.artifacts.shareMenu = {s}

\* C21: two sessions running concurrently have a browser, context and page
\* each, and whatever the interleaving of their steps each returns what it
\* would return alone: share URL, line items, and artifact files that hold
\* its own log and screenshots.
C21_RequestIsolation ==
    /\ \A s \in Sessions, t \in Sessions :
          (s # t /\ cBrowser[s] # 0) => cBrowser[s] # cBrowser[t]
    /\ \A s \in Sessions : cOut[s] # NoOut => AsIfAlone(s, cOut[s])

====
